---- MODULE Spec2Model ----
(***************************************************************************)
(* Healthcare appointment booking API: the stage-driven conversation       *)
(* state machine (endpoints/chat_router.py), its MCP tools                 *)
(* (tools/mcp_tools.py), the text extractors (utils/helper_func.py) and    *)
(* the background tasks (utils/background_task.py).                        *)
(*                                                                         *)
(* Text is modelled as a sequence of tokens.  A token carries its lexical  *)
(* class and its value; the regular expressions of the code are evaluated  *)
(* on the lexical classes.                                                 *)
(***************************************************************************)
EXTENDS Integers, Sequences, FiniteSets, TLC

(***************************************************************************)
(* Bounds of the model.                                                    *)
(***************************************************************************)
MaxBookings == 2
MaxPending == 0
MaxFaults == 1
MaxExpiries == 1

(***************************************************************************)
(* Tokens.  k: lexical class; w: the characters of a word; a, b, c: the    *)
(* numeric content (number: value, count of digits; ISO date: y, m, d;     *)
(* time: hour, minute; email: dots in the local part, dots in the domain). *)
(***************************************************************************)
W(s) == [k |-> "word", w |-> s, a |-> 0, b |-> 0, c |-> 0]
Num(v, digits) == [k |-> "num", w |-> "", a |-> v, b |-> digits, c |-> 0]
Iso(y, m, d) == [k |-> "iso", w |-> "", a |-> y, b |-> m, c |-> d]
Time(h, mi) == [k |-> "time", w |-> "", a |-> h, b |-> mi, c |-> 0]
Email(s, localDots, domainDots) == [k |-> "email", w |-> s, a |-> localDots, b |-> domainDots, c |-> 0]

\* a run of whitespace at an end of a text
Space == [k |-> "space", w |-> " ", a |-> 0, b |-> 0, c |-> 0]

\* str.strip(): the text between its first and its last token that is not whitespace
Strip(text) ==
  LET Inked == {i \in 1..Len(text) : text[i].k # "space"}
      first == CHOOSE i \in Inked : \A j \in Inked : i <= j
      last == CHOOSE i \in Inked : \A j \in Inked : j <= i
  IN  IF Inked = {} THEN <<>> ELSE SubSeq(text, first, last)

\* str.split(): the words without the whitespace around them
Split(text) == SelectSeq(text, LAMBDA t : t.k # "space")

\* str.lower() on the words of the vocabulary; every other word is lower case already.
Lower(s) ==
  CASE s = "Delhi" -> "delhi"
    [] s = "Mumbai" -> "mumbai"
    [] s = "Kolkata" -> "kolkata"
    [] s = "Pune" -> "pune"
    [] s = "Bangalore" -> "bangalore"
    [] s = "Dr. Raj Sharma" -> "dr. raj sharma"
    [] s = "Dr. Rohan Das" -> "dr. rohan das"
    [] s = "Cardiologist" -> "cardiologist"
    [] s = "Dermatologist" -> "dermatologist"
    [] s = "Dentist" -> "dentist"
    [] s = "Neurologist" -> "neurologist"
    [] s = "John" -> "john"
    [] s = "Oct" -> "oct"
    [] OTHER -> s

\* str.capitalize() on the words of the vocabulary.
Capitalize(s) ==
  CASE Lower(s) = "john" -> "John"
    [] Lower(s) = "oct" -> "Oct"
    [] Lower(s) = "october" -> "October"
    [] OTHER -> s

(***************************************************************************)
(* Calendar arithmetic of datetime: a date is <<year, month, day>>.        *)
(***************************************************************************)
IsLeap(y) == (y % 4 = 0) /\ ((y % 100 # 0) \/ (y % 400 = 0))

DaysInMonth(y, m) ==
  IF m = 2 THEN (IF IsLeap(y) THEN 29 ELSE 28)
  ELSE IF m \in {4, 6, 9, 11} THEN 30 ELSE 31

RECURSIVE DaysBeforeMonth(_, _)
DaysBeforeMonth(y, m) == IF m <= 1 THEN 0 ELSE DaysBeforeMonth(y, m - 1) + DaysInMonth(y, m - 1)

\* date.toordinal(): 0001-01-01 is day 1.
Ordinal(dt) ==
  LET y1 == dt[1] - 1
  IN  y1 * 365 + (y1 \div 4) - (y1 \div 100) + (y1 \div 400) + DaysBeforeMonth(dt[1], dt[2]) + dt[3]

weekdays_map == <<"Monday", "Tuesday", "Wednesday", "Thursday", "Friday", "Saturday", "Sunday">>

\* date.weekday(): Monday is 0.
WeekdayIndex(dt) == (Ordinal(dt) + 6) % 7

\* dt.strftime("%A")
Weekday(dt) == weekdays_map[WeekdayIndex(dt) + 1]

\* strptime accepts the fields only when they name a day of the calendar.
ValidDate(y, m, d) == y \in 1..9999 /\ m \in 1..12 /\ d \in 1..DaysInMonth(y, m)
ValidTime(h, mi) == h \in 0..23 /\ mi \in 0..59

NextDay(dt) ==
  IF dt[3] < DaysInMonth(dt[1], dt[2]) THEN <<dt[1], dt[2], dt[3] + 1>>
  ELSE IF dt[2] < 12 THEN <<dt[1], dt[2] + 1, 1>>
  ELSE <<dt[1] + 1, 1, 1>>

\* dt + timedelta(days=i)
RECURSIVE AddDays(_, _)
AddDays(dt, i) == IF i = 0 THEN dt ELSE AddDays(NextDay(dt), i - 1)

\* strptime's %b: the abbreviated month names (the text was lower-cased and capitalized before).
MonthAbbr(s) ==
  CASE s = "Jan" -> 1 [] s = "Feb" -> 2 [] s = "Mar" -> 3 [] s = "Apr" -> 4
    [] s = "May" -> 5 [] s = "Jun" -> 6 [] s = "Jul" -> 7 [] s = "Aug" -> 8
    [] s = "Sep" -> 9 [] s = "Oct" -> 10 [] s = "Nov" -> 11 [] s = "Dec" -> 12
    [] OTHER -> 0

(***************************************************************************)
(* Python values that may be None.                                         *)
(***************************************************************************)
PyNone == [some |-> FALSE, v |-> <<>>]
Some(x) == [some |-> TRUE, v |-> <<x>>]
Val(o) == o.v[1]

\* index of the first element of seq that satisfies Test, 0 when there is none
FirstIndex(seq, Test(_)) ==
  IF \E i \in 1..Len(seq) : Test(seq[i])
  THEN CHOOSE i \in 1..Len(seq) : Test(seq[i]) /\ \A j \in 1..(i - 1) : ~Test(seq[j])
  ELSE 0

(***************************************************************************)
(* utils/helper_func.py: field extraction.                                 *)
(***************************************************************************)
LowerWords(text) == [i \in 1..Len(text) |-> IF text[i].k = "word" THEN Lower(text[i].w) ELSE ""]

IsWordAt(text, i, s) == i \in 1..Len(text) /\ text[i].k = "word" /\ Lower(text[i].w) = s

\* (?:my name is|i am)\s+([A-Za-z]+), re.IGNORECASE: position of the captured word, 0 without a match
NameMatch(text) ==
  LET Hit(i) == \/ IsWordAt(text, i - 3, "my") /\ IsWordAt(text, i - 2, "name") /\ IsWordAt(text, i - 1, "is")
                \/ IsWordAt(text, i - 2, "i") /\ IsWordAt(text, i - 1, "am")
      Hits == {i \in 1..Len(text) : text[i].k = "word" /\ Hit(i)}
  IN  IF Hits = {} THEN 0 ELSE CHOOSE i \in Hits : \A j \in Hits : i <= j

\* \b(\d{1,3})\s*(?:years|yo|y/o)?\b: the first run of one to three digits between word
\* boundaries; the month of an ISO date and the hour of a time are such runs.
AgeOfToken(t) ==
  CASE t.k = "num" /\ t.b <= 3 -> Some(t.a)
    [] t.k = "iso" -> Some(t.b)
    [] t.k = "time" -> Some(t.a)
    [] OTHER -> PyNone

AgeMatch(text) ==
  LET i == FirstIndex(text, LAMBDA t : AgeOfToken(t).some)
  IN  IF i = 0 THEN PyNone ELSE AgeOfToken(text[i])

\* \b\d{10}\b
ContactMatch(text) ==
  LET i == FirstIndex(text, LAMBDA t : t.k = "num" /\ t.b = 10)
  IN  IF i = 0 THEN PyNone ELSE Some(text[i])

\* [\w\.-]+@[\w\.-]+\.\w+
EmailMatch(text) ==
  LET i == FirstIndex(text, LAMBDA t : t.k = "email" /\ t.b >= 1)
  IN  IF i = 0 THEN PyNone ELSE Some(text[i])

\* a dict with the key only when the value is there
Entry(key, o) == IF o.some THEN key :> Val(o) ELSE <<>>

EmptyDict == <<>>

Get(d, key) == IF key \in DOMAIN d THEN Some(d[key]) ELSE PyNone

extract_user_info_from_text(text) ==
  LET n == NameMatch(text)
      name == IF n = 0 THEN PyNone ELSE Some(Capitalize(text[n].w))
  IN  Entry("name", name) @@ Entry("age", AgeMatch(text))
        @@ Entry("contact", ContactMatch(text)) @@ Entry("email", EmailMatch(text))

\* the date after the word "on": day number first, month name last, the current year
BookingDateOf(text, year) ==
  LET words == LowerWords(text)
      on == FirstIndex(words, LAMBDA s : s = "on")
      rest == SubSeq(text, on + 1, Len(text))
      at == FirstIndex(LowerWords(rest), LAMBDA s : s = "at")
      date_words == IF at = 0 THEN rest ELSE SubSeq(rest, 1, at - 1)
      first == date_words[1]
      last == date_words[Len(date_words)]
      month == IF last.k = "word" THEN MonthAbbr(Capitalize(Lower(last.w))) ELSE 0
  IN  IF on = 0 \/ Len(date_words) < 2 THEN PyNone
      ELSE IF first.k = "num" /\ first.b <= 2 /\ month # 0 /\ ValidDate(year, month, first.a)
           THEN Some(Iso(year, month, first.a))
           ELSE PyNone

\* the word after the word "at"
BookingTimeOf(text) ==
  LET at == FirstIndex(LowerWords(text), LAMBDA s : s = "at")
  IN  IF at = 0 \/ at + 1 > Len(text) THEN PyNone
      ELSE Some(IF text[at + 1].k = "word" THEN W(Lower(text[at + 1].w)) ELSE text[at + 1])

extract_booking_info_from_text(text, year) ==
  [booking_date |-> BookingDateOf(Split(text), year), booking_time |-> BookingTimeOf(Split(text))]

\* preprocess_user_input without the strip() of its last branch: C19 fails with it
preprocess_user_input_untrimmed(stage, user_message, year) ==
  IF stage = "awaiting_user_info"
  THEN [type |-> "dict", info |-> extract_user_info_from_text(user_message), booking |-> extract_booking_info_from_text(<<>>, year), str |-> <<>>]
  ELSE IF stage = "awaiting_availability"
  THEN [type |-> "dict", info |-> EmptyDict, booking |-> extract_booking_info_from_text(user_message, year), str |-> <<>>]
  ELSE [type |-> "str", info |-> EmptyDict, booking |-> extract_booking_info_from_text(<<>>, year), str |-> user_message]

\* the result is tagged with its Python type: a dict for the two extracting stages, a str otherwise
preprocess_user_input(stage, user_message, year) ==
  IF stage = "awaiting_user_info"
  THEN [type |-> "dict", info |-> extract_user_info_from_text(user_message), booking |-> extract_booking_info_from_text(<<>>, year), str |-> <<>>]
  ELSE IF stage = "awaiting_availability"
  THEN [type |-> "dict", info |-> EmptyDict, booking |-> extract_booking_info_from_text(user_message, year), str |-> <<>>]
  ELSE [type |-> "str", info |-> EmptyDict, booking |-> extract_booking_info_from_text(<<>>, year), str |-> Strip(user_message)]

(***************************************************************************)
(* The professionals collection (fake_db.py seeds it; the tools only read  *)
(* it).  No seeded professional configures a default_time.                 *)
(***************************************************************************)
professionals ==
  << [name |-> "Dr. Raj Sharma", type |-> "Cardiologist", city |-> "Delhi",
      working_days |-> <<"Monday", "Wednesday", "Friday">>, default_time |-> PyNone],
     [name |-> "Dr. Rohan Das", type |-> "Cardiologist", city |-> "Delhi",
      working_days |-> <<"Tuesday", "Thursday">>, default_time |-> PyNone] >>

Range(seq) == {seq[i] : i \in 1..Len(seq)}

(***************************************************************************)
(* tools/mcp_tools.py.  A tool works on the stores                         *)
(*   st = [cache, ttl, profCache, sessions, bookings, nextId]              *)
(* and yields the stores it leaves behind and its return value; ret is     *)
(* PyNone when the tool raised.  f names the collaborator fault of the     *)
(* call: "none", "early" (a collaborator raises before the tool's first    *)
(* write), "late" (the tool's last write raises) or "router" (the tool     *)
(* runs undisturbed and the router's own cache write after it raises).     *)
(***************************************************************************)
SESSION_TTL == 3600
NO_TTL == -1
Faults == {"none", "early", "late", "router"}

\* the entry replaced by the mapping in place of the merge into it: C28 fails with it
HsetExpireWhole(st, chat, mapping) ==
  [st EXCEPT !.cache[chat] = mapping, !.ttl[chat] = SESSION_TTL]

\* r.hset(key, mapping=...) followed by r.expire(key, SESSION_TTL)
HsetExpire(st, chat, mapping) ==
  [st EXCEPT !.cache[chat] = mapping @@ st.cache[chat], !.ttl[chat] = SESSION_TTL]

\* sessions_collection.update_one({"chat_id": chat}, {"$set": fields}, upsert=True)
UpdateSession(st, chat, fields) == [st EXCEPT !.sessions[chat] = fields @@ st.sessions[chat]]

Raised(st) == [st |-> st, ret |-> PyNone]
Returned(st, dict) == [st |-> st, ret |-> Some(dict)]

CityPrompt == <<W("Please mention your city (e.g., Kolkata, Pune, Bangalore, Delhi).")>>

recommend_service(st, chat, user_message, reply, f) ==
  IF f = "early" THEN Raised(st)
  ELSE LET st1 == HsetExpire(st, chat, [recommendation |-> reply, messages |-> user_message])
       IN  IF f = "late" THEN Raised(st1)
           ELSE Returned(UpdateSession(st1, chat, [recommendation |-> reply]),
                         [recommendation |-> reply, prompt |-> CityPrompt])


\* re.search(r"(Cardiologist|Dermatologist|Dentist|Neurologist)", recommendation, re.IGNORECASE)
ServiceTypeOf(recommendation) ==
  LET i == FirstIndex(recommendation, LAMBDA t : t.k = "word" /\ Lower(t.w) \in {"cardiologist", "dermatologist", "dentist", "neurologist"})
  IN  IF i = 0 THEN "General Practitioner" ELSE recommendation[i].w

valid_cities == <<"Kolkata", "Pune", "Bangalore", "Delhi">>

\* the first city of valid_cities that the message names, ignoring case
CityMatch(user_message) ==
  LET Named(c) == \E i \in 1..Len(user_message) : IsWordAt(user_message, i, Lower(c))
      i == FirstIndex(valid_cities, Named)
  IN  IF i = 0 THEN PyNone ELSE Some(valid_cities[i])

\* professionals_collection.find({"city": ^city$ (i), "type": service_type (i)})
FindProfessionals(city, service_type) ==
  SelectSeq(professionals, LAMBDA p : Lower(p.city) = Lower(city) /\ Lower(p.type) = Lower(service_type))

NoCityText == <<W("Could not detect city. Please mention one of Kolkata, Pune, Bangalore, Delhi.")>>

list_professionals(st, chat, user_message, f) ==
  LET context == st.cache[chat]
      recommendation == IF "recommendation" \in DOMAIN context THEN context.recommendation ELSE <<>>
      service_type == ServiceTypeOf(recommendation)
      city_match == CityMatch(user_message)
      city == Val(city_match)
      cache_key == <<city, service_type>>
      cached == cache_key \in st.profCache
      found == FindProfessionals(city, service_type)
      st1 == IF ~cached /\ found # <<>> THEN [st EXCEPT !.profCache = @ \cup {cache_key}] ELSE st
  IN  IF f = "early" THEN Raised(st)
      ELSE IF ~city_match.some THEN Returned(st, [recommendation |-> NoCityText])
      ELSE IF found = <<>> THEN Returned(st1, [recommendation |-> <<W("No"), W(service_type), W("found in"), W(city)>>])
      ELSE IF f = "late" THEN Raised(st1)
      ELSE Returned(UpdateSession(st1, chat, [professionals |-> found]),
                    [recommendation |-> <<W("Here are the"), W(service_type), W(city)>>
                                         \o [i \in 1..Len(found) |-> W(found[i].name)]
                                         \o <<W("Please type the professional's name to continue.")>>])

ListFirstText == <<W("No professionals available. Please list them first.")>>
NoNameText == <<W("Could not detect professional's name. Please type the exact name from the list.")>>
SelectedText(name, service_type) ==
  <<W(name), W(service_type), W("selected. Please provide your name, age, contact number, and email.")>>

select_professional(st, chat, user_message, f) ==
  LET session == st.sessions[chat]
      listed == IF "professionals" \in DOMAIN session THEN session.professionals ELSE <<>>
      i == FirstIndex(listed, LAMBDA p : \E j \in 1..Len(user_message) : IsWordAt(user_message, j, Lower(p.name)))
      selected == listed[i]
      service_type == selected.type
      st1 == UpdateSession(st, chat, [selected_professional |-> selected, service_type |-> service_type])
  IN  IF f = "early" THEN Raised(st)
      ELSE IF listed = <<>> THEN Returned(st, [recommendation |-> ListFirstText])
      ELSE IF i = 0 THEN Returned(st, [recommendation |-> NoNameText])
      ELSE IF f = "late" THEN Raised(st1)
      ELSE Returned(HsetExpire(st1, chat, [selected_professional |-> selected.name, service_type |-> service_type]),
                    [recommendation |-> SelectedText(selected.name, service_type)])


\* x or y
Or(x, y) == IF x.some THEN x ELSE y

\* re.match(r"^\w+@\w+\.\w+$", email)
ToolEmailOk(email) == email.k = "email" /\ email.a = 0 /\ email.b = 1

\* len(re.sub(r"\D", "", contact)) == 10
ContactOk(contact) == contact.k = "num" /\ contact.b = 10

collect_user_info(st, chat, args, f) ==
  LET session_cache == st.cache[chat]
      name == Or(Get(args, "name"), Get(session_cache, "customer_name"))
      age == Or(IF "age" \in DOMAIN args /\ args.age # 0 THEN Some(args.age) ELSE PyNone, Get(session_cache, "age"))
      contact == Or(Get(args, "contact"), Get(session_cache, "contact"))
      email == Or(Get(args, "email"), Get(session_cache, "email"))
      missing == (IF ~name.some THEN <<"name">> ELSE <<>>)
                 \o (IF ~age.some THEN <<"age">> ELSE <<>>)
                 \o (IF ~email.some \/ ~ToolEmailOk(Val(email)) THEN <<"valid email">> ELSE <<>>)
                 \o (IF ~contact.some \/ ~ContactOk(Val(contact)) THEN <<"valid contact number">> ELSE <<>>)
      fields == [customer_name |-> Val(name), age |-> Val(age), contact |-> Val(contact), email |-> Val(email)]
      st1 == UpdateSession(st, chat, fields)
  IN  IF f = "early" THEN Raised(st)
      ELSE IF missing # <<>>
      THEN Returned(st, [status |-> "incomplete",
                         recommendation |-> <<W("Please provide missing fields:")>>
                                              \o [i \in 1..Len(missing) |-> W(missing[i])]])
      ELSE IF f = "late" THEN Raised(st1)
      ELSE Returned(HsetExpire(st1, chat, fields),
                    [status |-> "complete", recommendation |-> <<W("User info recorded for"), W(Val(name)), Num(Val(age), 0), Val(email),
                                          W("Proceed to check availability.")>>])

(***************************************************************************)
(* Availability of a professional on a date: "available" on a working      *)
(* day, otherwise the first of the following seven days whose weekday is a *)
(* working day.                                                            *)
(***************************************************************************)
DEFAULT_TIME == Time(10, 0)

\* the scan started at the head of weekdays_map instead of at the requested weekday: C7 fails with it
NextWorkingOffsetFromMonday(current_index, working_days) ==
  LET Works(i) == weekdays_map[(i % 7) + 1] \in Range(working_days)
  IN  IF \E i \in 1..7 : Works(i) THEN CHOOSE i \in 1..7 : Works(i) /\ \A j \in 1..(i - 1) : ~Works(j) ELSE 0

\* the least i in 1..7 for which weekdays_map[(current_index + i) % 7] is a working day, 0 without one
NextWorkingOffset(current_index, working_days) ==
  LET Works(i) == weekdays_map[((current_index + i) % 7) + 1] \in Range(working_days)
  IN  IF \E i \in 1..7 : Works(i) THEN CHOOSE i \in 1..7 : Works(i) /\ \A j \in 1..(i - 1) : ~Works(j) ELSE 0

Resolve(prof, dt) ==
  LET weekday == Weekday(dt)
      i == NextWorkingOffset(WeekdayIndex(dt), prof.working_days)
  IN  IF weekday \in Range(prof.working_days)
      THEN [decision |-> "available", date |-> dt, time |-> DEFAULT_TIME]
      ELSE IF i # 0
      THEN [decision |-> "suggestion", date |-> AddDays(dt, i), time |-> Val(Or(prof.default_time, Some(DEFAULT_TIME)))]
      ELSE [decision |-> "no_slot", date |-> dt, time |-> DEFAULT_TIME]

NoSelectionText == <<W("No professional selected yet.")>>
NotFoundText(name) == <<W(name), W("not found.")>>
DateTimePromptText == <<W("Please provide date (YYYY-MM-DD) and time (HH:MM).")>>
SuggestionText(name, weekday, date, time) ==
  <<W(name), W("not available on"), W(weekday), W("Next available slot:"), Iso(date[1], date[2], date[3]), time>>
NoSlotText(name) == <<W(name), W("not available any day this week.")>>
BookedText(name) == <<W(name), W("already booked at that time.")>>

\* the conflict query with the date and the time exchanged: it finds no booking, so C1 fails with it
ConflictSwapped(bookings, name, date, time) ==
  \E i \in 1..Len(bookings) :
    /\ bookings[i].professional_name = name
    /\ bookings[i].booking_date = time
    /\ bookings[i].booking_time = date

\* bookings_collection.find_one({professional_name, booking_date, booking_time})
Conflict(bookings, name, date, time) ==
  \E i \in 1..Len(bookings) :
    /\ bookings[i].professional_name = name
    /\ bookings[i].booking_date = date
    /\ bookings[i].booking_time = time

check_availability(st, chat, user_message, f) ==
  LET session_cache == st.cache[chat]
      selected_name == Get(session_cache, "selected_professional")
      p == FirstIndex(professionals, LAMBDA q : q.name = Val(selected_name))
      prof == professionals[p]
      d == FirstIndex(user_message, LAMBDA t : t.k = "iso")
      t == FirstIndex(user_message, LAMBDA u : u.k = "time")
      booking_date == user_message[d]
      booking_time == user_message[t]
      dt == <<booking_date.a, booking_date.b, booking_date.c>>
      res == Resolve(prof, dt)
      booking_id == st.nextId
      booking == [booking_id |-> booking_id, chat_id |-> chat, professional_name |-> Val(selected_name),
                  service_type |-> Get(session_cache, "service_type"),
                  customer_name |-> Get(session_cache, "customer_name"), age |-> Get(session_cache, "age"),
                  contact |-> Get(session_cache, "contact"), email |-> Get(session_cache, "email"),
                  booking_date |-> booking_date, booking_time |-> booking_time, status |-> "confirmed"]
      st1 == [st EXCEPT !.bookings = Append(@, booking), !.nextId = @ + 1]
      unavailable(text) == Returned(st, [status |-> "unavailable", recommendation |-> text])
  IN  IF f = "early" THEN Raised(st)
      ELSE IF ~selected_name.some THEN unavailable(NoSelectionText)
      ELSE IF p = 0 THEN unavailable(NotFoundText(Val(selected_name)))
      ELSE IF d = 0 \/ t = 0 THEN unavailable(DateTimePromptText)
      ELSE IF ~(ValidDate(dt[1], dt[2], dt[3]) /\ ValidTime(booking_time.a, booking_time.b)) THEN Raised(st)
      ELSE IF res.decision = "suggestion"
      THEN unavailable(SuggestionText(Val(selected_name), Weekday(dt), res.date, res.time))
      ELSE IF res.decision = "no_slot" THEN unavailable(NoSlotText(Val(selected_name)))
      ELSE IF Conflict(st.bookings, Val(selected_name), booking_date, booking_time)
      THEN unavailable(BookedText(Val(selected_name)))
      ELSE IF f = "late" THEN Raised(st1)
      ELSE Returned(HsetExpire(st1, chat, [status |-> "complete", booking_id |-> booking_id]),
                    [status |-> "confirmed",
                     recommendation |-> <<W("Booking confirmed with"), W(Val(selected_name)),
                                          W(Val(Get(session_cache, "service_type"))), booking_date, booking_time>>])

(***************************************************************************)
(* utils/helper_func.py: tool execution and response normalisation.        *)
(* A Python value is tagged with its type: t = "none", "object" (d is its  *)
(* __dict__), "dict", "list" (d.items are its elements) or                 *)
(* "text_content" (d is the element); order lists the keys of d in         *)
(* insertion order.  An element of a content list is a dict {"text": ...}  *)
(* (isDict) or a TextContent object; json is what json.loads makes of its  *)
(* text, PyNone when the text is not JSON.                                 *)
(***************************************************************************)
NoneV == [t |-> "none", d |-> <<>>, order |-> <<>>]
ObjV(d, order) == [t |-> "object", d |-> d, order |-> order]
DictV(d, order) == [t |-> "dict", d |-> d, order |-> order]
ListV(items) == [t |-> "list", d |-> [items |-> items], order |-> <<>>]
TextContentV(item) == [t |-> "text_content", d |-> item, order |-> <<>>]

\* what json.loads makes of a text that is JSON but no object: a number
JsonScalar == [t |-> "number"]

\* str() of a value that is no string
ReprText == <<W("repr(...)")>>

\* fastmcp's ToolResult of a tool that returned dict: content holds TextContent objects
ToolResult(dict) ==
  ObjV([content |-> <<[isDict |-> FALSE, text |-> <<>>, json |-> PyNone]>>, structured_content |-> dict],
       <<"content", "structured_content">>)

\* run_tool: the tool's result, None when the tool raised
run_tool(res) == IF res.ret.some THEN ToolResult(Val(res.ret)) ELSE NoneV

NoneText == <<W("None")>>

\* convert_tool_response without its __dict__ branch (lines 55-57): an object becomes
\* {"raw": str(object)}; C13 fails with it
convert_tool_response_raw(tool_response) ==
  LET TextOf(t) == IF t.isDict THEN [isDict |-> TRUE, text |-> ReprText, json |-> PyNone]
                   ELSE [isDict |-> TRUE, text |-> t.text, json |-> t.json]
  IN  IF tool_response.t = "dict" THEN tool_response
      ELSE IF tool_response.t = "list"
      THEN DictV([content |-> [i \in 1..Len(tool_response.d.items) |-> TextOf(tool_response.d.items[i])]],
                 <<"content">>)
      ELSE IF tool_response.t = "text_content"
      THEN DictV([content |-> <<[isDict |-> TRUE, text |-> tool_response.d.text, json |-> tool_response.d.json]>>],
                 <<"content">>)
      ELSE IF tool_response.t = "object" THEN DictV([raw |-> ReprText], <<"raw">>)
      ELSE DictV([raw |-> NoneText], <<"raw">>)

convert_tool_response(tool_response) ==
  LET \* t.text of a TextContent, str(t) of anything else
      TextOf(t) == IF t.isDict THEN [isDict |-> TRUE, text |-> ReprText, json |-> PyNone]
                   ELSE [isDict |-> TRUE, text |-> t.text, json |-> t.json]
  IN  IF tool_response.t = "dict" THEN tool_response
      ELSE IF tool_response.t = "list"
      THEN DictV([content |-> [i \in 1..Len(tool_response.d.items) |-> TextOf(tool_response.d.items[i])]],
                 <<"content">>)
      ELSE IF tool_response.t = "text_content"
      THEN DictV([content |-> <<[isDict |-> TRUE, text |-> tool_response.d.text, json |-> tool_response.d.json]>>],
                 <<"content">>)
      ELSE IF tool_response.t = "object" THEN DictV(tool_response.d, tool_response.order)
      ELSE DictV([raw |-> NoneText], <<"raw">>)

Fallback == <<W("No recommendation available.")>>
StringKeys == {"raw", "message", "recommendation", "prompt", "status"}

\* the keys of the loop at line 71 in the other order, prompt before recommendation: C15 fails with it
PromptOrRec(d) ==
  IF "prompt" \in DOMAIN d /\ d.prompt # <<>> THEN Some(d.prompt)
  ELSE IF "recommendation" \in DOMAIN d /\ d.recommendation # <<>> THEN Some(d.recommendation)
  ELSE PyNone

\* the recommendation or the prompt of a dict, whichever is there and non-empty first
RecOrPrompt(d) ==
  IF "recommendation" \in DOMAIN d /\ d.recommendation # <<>> THEN Some(d.recommendation)
  ELSE IF "prompt" \in DOMAIN d /\ d.prompt # <<>> THEN Some(d.prompt)
  ELSE PyNone

extract_recommendation(tool_response) ==
  LET tr == convert_tool_response(tool_response).d
      order == convert_tool_response(tool_response).order
      structured == IF "structured_content" \in DOMAIN tr THEN tr.structured_content ELSE <<>>
      content_list == IF "content" \in DOMAIN tr THEN tr.content ELSE <<>>
      \* the first item whose handling ends the loop: an item without get() raises, a text that
      \* is not JSON is returned, a JSON text that is no object raises at the test of its keys, a
      \* JSON object with one of the keys returns it
      Ends(item) == \/ ~item.isDict
                    \/ item.text # <<>> /\ ~item.json.some
                    \/ item.text # <<>> /\ item.json.some /\ Val(item.json) = JsonScalar
                    \/ item.text # <<>> /\ item.json.some
                         /\ ({"recommendation", "prompt"} \cap DOMAIN Val(item.json)) # {}
      i == FirstIndex(content_list, Ends)
      item == content_list[i]
      parsed == Val(item.json)
      s == FirstIndex(order, LAMBDA key : key \in StringKeys)
  IN  IF tool_response.t = "none" \/ tool_response.d = <<>> THEN Fallback
      ELSE IF tool_response.t = "list" /\ tool_response.d.items = <<>> THEN Fallback
      ELSE IF structured = NoneV THEN Fallback
      ELSE IF RecOrPrompt(structured).some THEN Val(RecOrPrompt(structured))
      ELSE IF i # 0 /\ ~item.isDict THEN Fallback
      ELSE IF i # 0 /\ ~item.json.some THEN item.text
      ELSE IF i # 0 /\ parsed = JsonScalar THEN Fallback
      ELSE IF i # 0 /\ "recommendation" \in DOMAIN parsed THEN parsed.recommendation
      ELSE IF i # 0 THEN parsed.prompt
      ELSE IF "message" \in DOMAIN tr THEN tr.message
      ELSE IF s # 0 THEN tr[order[s]]
      ELSE Fallback

\* safe_hset with its last test inverted (if not clean): nothing is written, so C2 fails with it
safe_hset_inverted(st, chat, mapping) ==
  LET clean == [key \in {x \in DOMAIN mapping : mapping[x].some} |-> Val(mapping[key])]
  IN  IF DOMAIN clean # {} THEN st ELSE [st EXCEPT !.cache[chat] = clean @@ st.cache[chat]]

\* safe_hset: hset of the entries whose value is not None, no expire
safe_hset(st, chat, mapping) ==
  LET clean == [key \in {x \in DOMAIN mapping : mapping[x].some} |-> Val(mapping[key])]
  IN  IF DOMAIN clean = {} THEN st ELSE [st EXCEPT !.cache[chat] = clean @@ st.cache[chat]]

\* hdel of the stage field in place of the delete of the key: C11 fails with it
DeleteStageOnly(st, chat) ==
  [st EXCEPT !.cache[chat] = [key \in DOMAIN st.cache[chat] \ {"stage"} |-> st.cache[chat][key]]]

\* r.delete(key)
Delete(st, chat) == [st EXCEPT !.cache[chat] = <<>>, !.ttl[chat] = NO_TTL]

(***************************************************************************)
(* endpoints/chat_router.py.  A handler yields the stores it leaves, the   *)
(* background tasks it queued, its payload, the tool it ran and whether    *)
(* the tool raised.  A payload maps "response" to a string or to PyNone.   *)
(***************************************************************************)
EnterMessageText == <<W("Please enter a valid message to start the chat.")>>
SomethingWrongText == <<W("Something went wrong. Please try again.")>>
ValidCityText == <<W("Please enter a valid city.")>>
SelectFromListText == <<W("Please select a professional from the list.")>>

Task(fn, args) == [fn |-> fn, args |-> args]
UpdateTask(chat, fields) == Task("update_session_background", <<chat, fields>>)
SaveTasks(chat, user_message, response) ==
  <<Task("save_message", <<chat, "user", Some(user_message)>>), Task("save_message", <<chat, "assistant", response>>)>>

\* session_cache.get("stage") or session_data.get("stage") or "recommendation"
LoadStage(cache_entry, session) ==
  IF "stage" \in DOMAIN cache_entry THEN cache_entry.stage
  ELSE IF "stage" \in DOMAIN session THEN session.stage
  ELSE "recommendation"

\* re.match(r"\w+@\w+\.\w+", email)
RouterEmailOk(email) == email.k = "email" /\ email.a = 0 /\ email.b >= 1

\* the availability text without the str() around a tool response of None: C8 fails with it
AvailabilityTextRaw(structured) ==
  IF structured # <<>> THEN Get(structured, "recommendation") ELSE PyNone

\* the text of the availability stage: structured.get("recommendation"), str(tool_response) without
\* structured content
AvailabilityText(structured) ==
  IF structured # <<>> THEN Get(structured, "recommendation") ELSE Some(NoneText)

\* raised: an exception left the handler
Outcome(st, tasks, payload, tool, toolRaised) ==
  [st |-> st, tasks |-> tasks, payload |-> payload, tool |-> tool, toolRaised |-> toolRaised, raised |-> FALSE]

new_chat(st, chat_id, user_message, reply, f) ==
  LET st0 == safe_hset(st, chat_id, [stage |-> Some("recommendation")])
      first == <<UpdateTask(chat_id, [stage |-> "recommendation", messages |-> <<user_message>>])>>
      next_stage == "awaiting_city"
      Respond(res, response_text) ==
        IF f = "router"
        THEN Outcome(res.st, first \o SaveTasks(chat_id, user_message, Some(SomethingWrongText)),
                     [chat_id |-> chat_id, response |-> Some(SomethingWrongText)], "recommend_service", FALSE)
        ELSE Outcome(safe_hset(res.st, chat_id, [stage |-> Some(next_stage), recommendation |-> Some(response_text)]),
                     first \o <<UpdateTask(chat_id, [stage |-> next_stage, recommendation |-> response_text])>>
                           \o SaveTasks(chat_id, user_message, Some(response_text)),
                     [chat_id |-> chat_id, response |-> Some(response_text)], "recommend_service", ~res.ret.some)
      Ran(res) == Respond(res, extract_recommendation(convert_tool_response(run_tool(res))))
  IN  IF user_message = <<>>
      THEN Outcome(st0, first, [chat_id |-> chat_id, response |-> Some(EnterMessageText)], "none", FALSE)
      ELSE Ran(recommend_service(st0, chat_id, preprocess_user_input("recommendation", user_message, 0).str,
                                 reply, IF f = "router" THEN "none" ELSE f))

\* the availability branch ending the conversation whatever the status: C30 fails with it
BranchComplete(st, response_text, next_stage, status, tool, toolRaised) ==
  [st |-> st, response_text |-> response_text,
   next_stage |-> IF tool = "check_availability" THEN "complete" ELSE next_stage, status |-> status,
   tool |-> tool, toolRaised |-> toolRaised]

\* what a stage's branch of continue_chat leaves: the stores, the response, the next stage, the
\* status of the availability check and the tool it ran
Branch(st, response_text, next_stage, status, tool, toolRaised) ==
  [st |-> st, response_text |-> response_text, next_stage |-> next_stage, status |-> status,
   tool |-> tool, toolRaised |-> toolRaised]

\* the stage branches of continue_chat
StageBranch(st, chat_id, stage, user_message, year, reply, tf) ==
  LET Ran(res, next_stage, tool) ==
        Branch(res.st, Some(extract_recommendation(run_tool(res))), next_stage, PyNone, tool, ~res.ret.some)
      Stay(response) == Branch(st, Some(response), stage, PyNone, "none", FALSE)
      Checked(avail, structured) ==
        Branch(avail.st, AvailabilityText(structured),
               IF Get(structured, "status") = Some("confirmed") THEN "complete" ELSE stage,
               Get(structured, "status"), "check_availability", ~avail.ret.some)
      Availability(avail) == Checked(avail, IF avail.ret.some THEN Val(avail.ret) ELSE <<>>)
      Dispatch(processed_input, text, user_info, booking_info) ==
        CASE stage = "recommendation" ->
               Ran(recommend_service(st, chat_id, text, reply, tf), "awaiting_city", "recommend_service")
          [] stage = "awaiting_city" ->
               IF text = <<>> THEN Stay(ValidCityText)
               ELSE Ran(list_professionals(st, chat_id, text, tf), "awaiting_prof_selection", "list_professionals")
          [] stage = "awaiting_prof_selection" ->
               IF text = <<>> THEN Stay(SelectFromListText)
               ELSE Ran(select_professional(st, chat_id, text, tf), "awaiting_user_info", "select_professional")
          [] stage = "awaiting_user_info" ->
               IF "name" \notin DOMAIN user_info THEN Stay(<<W("Please enter your name.")>>)
               ELSE IF "email" \notin DOMAIN user_info \/ ~RouterEmailOk(user_info.email) THEN Stay(<<W("Please enter a valid email address.")>>)
               ELSE Ran(collect_user_info(st, chat_id, user_info, tf), "awaiting_availability", "collect_user_info")
          [] stage = "awaiting_availability" ->
               IF ~booking_info.booking_date.some \/ ~booking_info.booking_time.some THEN Stay(<<W("Please provide both booking date and time.")>>)
               ELSE Availability(check_availability(st, chat_id,
                                   <<Val(booking_info.booking_date), Val(booking_info.booking_time)>>, tf))
          [] OTHER -> Branch(st, Some(<<W("Conversation complete. Thank you!")>>), "complete", PyNone, "none", FALSE)
      Typed(processed_input) ==
        Dispatch(processed_input,
                 IF processed_input.type = "str" THEN processed_input.str ELSE <<>>,
                 IF processed_input.type = "dict" THEN processed_input.info ELSE EmptyDict,
                 processed_input.booking)
  IN  Typed(preprocess_user_input(stage, user_message, year))

continue_chat(st, chat_id, user_message, year, reply, f) ==
  LET in_progress(response) == [chat_id |-> chat_id, response |-> response, status |-> "in_progress"]
      Respond(b) ==
        IF f = "router"
        THEN Outcome(b.st, SaveTasks(chat_id, user_message, Some(SomethingWrongText)),
                     in_progress(Some(SomethingWrongText)), b.tool, b.toolRaised)
        ELSE IF b.status = Some("confirmed")
        THEN Outcome(Delete(b.st, chat_id),
                     <<UpdateTask(chat_id, [stage |-> b.next_stage, status |-> Val(b.status)])>>
                       \o SaveTasks(chat_id, user_message, b.response_text),
                     [chat_id |-> chat_id, response |-> b.response_text, status |-> Val(b.status)],
                     b.tool, b.toolRaised)
        ELSE IF b.next_stage = "complete"
        THEN Outcome(Delete(b.st, chat_id), SaveTasks(chat_id, user_message, b.response_text),
                     in_progress(b.response_text), b.tool, b.toolRaised)
        ELSE Outcome(safe_hset(b.st, chat_id, [stage |-> Some(b.next_stage)]),
                     <<UpdateTask(chat_id, [stage |-> b.next_stage])>> \o SaveTasks(chat_id, user_message, b.response_text),
                     in_progress(b.response_text), b.tool, b.toolRaised)
  IN  Respond(StageBranch(st, chat_id, LoadStage(st.cache[chat_id], st.sessions[chat_id]), user_message, year,
                          reply, IF f = "router" THEN "none" ELSE f))

ChatNotFoundText == <<W("Chat ID not found.")>>
BookingInfoKeys == {"professional_name", "service_type", "customer_name", "age", "contact", "email",
                    "booking_date", "booking_time", "booking_id", "status"}

\* find_one_and_delete in place of find_one: the read removes what it returns; C16 fails with it
get_booking_info_popping(st, chat_id) ==
  LET i == FirstIndex(st.bookings, LAMBDA b : b.chat_id = chat_id)
      booking_data == st.bookings[i]
      rest == SubSeq(st.bookings, 1, i - 1) \o SubSeq(st.bookings, i + 1, Len(st.bookings))
      booking_info == [key \in BookingInfoKeys |-> booking_data[key]]
  IN  IF i = 0
      THEN Outcome(st, <<>>, [status |-> "error", message |-> ChatNotFoundText], "none", FALSE)
      ELSE Outcome([st EXCEPT !.bookings = rest], <<>>,
                   [status |-> "success", chat_id |-> chat_id, booking_info |-> booking_info], "none", FALSE)

\* find_one({}) in place of find_one({"chat_id": chat_id}): the first Booking of any conversation;
\* C17 fails with it
get_booking_info_unfiltered(st, chat_id) ==
  LET i == IF st.bookings = <<>> THEN 0 ELSE 1
      booking_data == st.bookings[i]
      booking_info == [key \in BookingInfoKeys |-> booking_data[key]]
  IN  IF i = 0
      THEN Outcome(st, <<>>, [status |-> "error", message |-> ChatNotFoundText], "none", FALSE)
      ELSE Outcome(st, <<>>, [status |-> "success", chat_id |-> chat_id, booking_info |-> booking_info],
                   "none", FALSE)

\* get_booking_info: find_one yields the first booking of the chat; booking_data.get(key) for the
\* ten keys of the answer
get_booking_info(st, chat_id) ==
  LET i == FirstIndex(st.bookings, LAMBDA b : b.chat_id = chat_id)
      booking_data == st.bookings[i]
      booking_info == [key \in BookingInfoKeys |-> booking_data[key]]
  IN  IF i = 0
      THEN Outcome(st, <<>>, [status |-> "error", message |-> ChatNotFoundText], "none", FALSE)
      ELSE Outcome(st, <<>>, [status |-> "success", chat_id |-> chat_id, booking_info |-> booking_info],
                   "none", FALSE)

\* delete_one without the test of deleted_count: success whatever was deleted; C18 fails with it
delete_booking_info_unchecked(st, chat_id) ==
  LET i == FirstIndex(st.bookings, LAMBDA b : b.chat_id = chat_id)
      rest == SubSeq(st.bookings, 1, i - 1) \o SubSeq(st.bookings, i + 1, Len(st.bookings))
  IN  Outcome(IF i = 0 THEN st ELSE [st EXCEPT !.bookings = rest], <<>>, [status |-> "success"], "none", FALSE)

\* delete_booking_info: delete_one removes the first booking of the chat; 404 when there is none
delete_booking_info(st, chat_id) ==
  LET i == FirstIndex(st.bookings, LAMBDA b : b.chat_id = chat_id)
      rest == SubSeq(st.bookings, 1, i - 1) \o SubSeq(st.bookings, i + 1, Len(st.bookings))
  IN  IF i = 0
      THEN [Outcome(st, <<>>, [status_code |-> 404], "none", FALSE) EXCEPT !.raised = TRUE]
      ELSE Outcome([st EXCEPT !.bookings = rest], <<>>, [status |-> "success"], "none", FALSE)

(***************************************************************************)
(* utils/background_task.py                                                *)
(***************************************************************************)
\* update_session_background(session_update): one parameter, the dict that carries chat_id
update_session_background(st, session_update) ==
  IF "chat_id" \notin DOMAIN session_update THEN st
  ELSE UpdateSession(st, session_update.chat_id, session_update)

\* a task of the queue: the call raises TypeError when the arguments do not fit the
\* parameters; save_message writes the chats collection, which no operation reads
RunTask(st, task) ==
  IF task.fn = "update_session_background"
  THEN IF Len(task.args) # 1 THEN Raised(st) ELSE Returned(update_session_background(st, task.args[1]), <<>>)
  ELSE IF Len(task.args) # 3 THEN Raised(st) ELSE Returned(st, <<>>)

\* BackgroundTasks.__call__: the tasks in order, the first exception ends the run
RECURSIVE RunTasks(_, _)
RunTasks(st, tasks) ==
  IF tasks = <<>> THEN st
  ELSE LET r == RunTask(st, Head(tasks))
       IN  IF r.ret.some THEN RunTasks(r.st, Tail(tasks)) ELSE r.st

(***************************************************************************)
(* Inputs.                                                                 *)
(***************************************************************************)
Chats == {"c1", "c2"}
Years == {2025}
Replies == {<<W("Cardiologist"), W("Which city?")>>}

JohnMail == Email("john@example.com", 0, 1)
Symptom == <<W("chest"), W("pain")>>
InfoComplete == <<W("my"), W("name"), W("is"), W("john"), Num(30, 2), W("years"), Num(98765, 10), JohnMail>>
InfoShortContact == <<W("my"), W("name"), W("is"), W("john"), Num(30, 2), W("years"), Num(12345, 5), JohnMail>>
InfoNoEmail == <<W("my"), W("name"), W("is"), W("john"), Num(98765, 10)>>
OnMonday == <<W("on"), Num(20, 2), W("oct"), W("at"), Time(10, 0)>>
IsoTuesday == <<Iso(2025, 10, 21), Time(10, 0)>>

\* the messages a user sends at a stage: none, the ones the stage asks for, and ones it cannot use
InputsAt(stage) ==
  CASE stage = "recommendation" -> {Symptom}
    [] stage = "awaiting_city" -> {<<>>, <<W("Delhi")>>, <<W("Mumbai")>>}
    [] stage = "awaiting_prof_selection" -> {<<>>, <<W("dr. raj sharma")>>, <<W("Mumbai")>>}
    [] stage = "awaiting_user_info" -> {<<>>, InfoComplete, InfoShortContact, InfoNoEmail}
    [] stage = "awaiting_availability" -> {<<>>, OnMonday, <<W("on"), Num(21, 2), W("oct"), W("at"), Time(10, 0)>>, IsoTuesday}
    [] OTHER -> {Symptom}

Stages == {"recommendation", "awaiting_city", "awaiting_prof_selection", "awaiting_user_info",
           "awaiting_availability", "complete"}

(***************************************************************************)
(* State.                                                                  *)
(***************************************************************************)
VARIABLES
  cache,      \* Redis: the hash session:<chat_id> of every chat, <<>> when the key does not exist
  ttl,        \* Redis: the expiration of the session key, NO_TTL when none is set
  profCache,  \* Redis: the keys professionals:<city>:<service_type> that hold a cached list
  sessions,   \* MongoDB booking_sessions: the document of every chat, <<>> when there is none
  bookings,   \* MongoDB bookings, in insertion order
  nextId,     \* the next uuid4() booking id
  faults,     \* the number of collaborator faults so far
  expired,    \* the number of session keys Redis has expired so far
  bg,         \* the task lists of the responses whose background work has not run yet
  turn,       \* the last request: its input and what the handler returned
  inflight,   \* the availability turn of every chat that is suspended at its conflict query
  probe       \* the availability question put to the resolver, and its answer

vars == <<cache, ttl, profCache, sessions, bookings, nextId, faults, expired, bg, turn, inflight, probe>>

Stores == [cache |-> cache, ttl |-> ttl, profCache |-> profCache, sessions |-> sessions,
           bookings |-> bookings, nextId |-> nextId]

NoTurn == [op |-> "none", chat |-> "", msg |-> <<>>, stage |-> "", fault |-> "none", tool |-> "none",
           toolRaised |-> FALSE, raised |-> FALSE, booked |-> PyNone, payload |-> <<>>]

Init ==
  /\ cache = [c \in Chats |-> <<>>]
  /\ ttl = [c \in Chats |-> NO_TTL]
  /\ profCache = {}
  /\ sessions = [c \in Chats |-> <<>>]
  /\ bookings = <<>>
  /\ nextId = 1
  /\ faults = 0
  /\ expired = 0
  /\ bg = <<>>
  /\ turn = NoTurn
  /\ inflight = [c \in Chats |-> <<>>]
  /\ probe = [asked |-> FALSE]

\* the stores, the queue and the record of the request after a handler ran
Apply(o, op, chat, msg, stage, f) ==
  /\ o.st.nextId <= MaxBookings + 1
  /\ f # "none" => faults < MaxFaults
  /\ faults' = IF f # "none" THEN faults + 1 ELSE faults
  /\ UNCHANGED <<expired, probe>>
  /\ inflight' = [inflight EXCEPT ![chat] = <<>>]
  /\ cache' = o.st.cache
  /\ ttl' = o.st.ttl
  /\ profCache' = o.st.profCache
  /\ sessions' = o.st.sessions
  /\ bookings' = o.st.bookings
  /\ nextId' = o.st.nextId
  /\ bg' = IF o.tasks = <<>> THEN bg ELSE Append(bg, o.tasks)
  /\ turn' = [op |-> op, chat |-> chat, msg |-> msg, stage |-> stage, fault |-> f, tool |-> o.tool,
              toolRaised |-> o.toolRaised, raised |-> o.raised,
              booked |-> IF Len(o.st.bookings) > Len(bookings) THEN Some(nextId) ELSE PyNone,
              payload |-> o.payload]

\* uuid4() yields an id that no store knows
Fresh(c) == cache[c] = <<>> /\ sessions[c] = <<>> /\ \A i \in 1..Len(bookings) : bookings[i].chat_id # c

\* C: the conversation ids the clients use; F: the faults the collaborators may show
NewChat(C, F) ==
  \E c \in C, m \in {<<>>, Symptom}, reply \in Replies, f \in F :
    /\ Len(bg) <= MaxPending
    /\ Fresh(c)
    /\ Apply(new_chat(Stores, c, m, reply, f), "new_chat", c, m, "recommendation", f)

ContinueChat(C, F) ==
  \E c \in C, year \in Years, reply \in Replies, f \in F :
    \E m \in InputsAt(LoadStage(cache[c], sessions[c])) :
      /\ Len(bg) <= MaxPending
      /\ Apply(continue_chat(Stores, c, m, year, reply, f), "continue_chat", c, m,
               LoadStage(cache[c], sessions[c]), f)

DeleteBookingInfo(C) ==
  \E c \in C :
    /\ Len(bg) <= MaxPending
    /\ Apply(delete_booking_info(Stores, c), "delete_booking_info", c, <<>>, "", "none")

GetBookingInfo(C) ==
  \E c \in C :
    /\ Len(bg) <= MaxPending
    /\ Apply(get_booking_info(Stores, c), "get_booking_info", c, <<>>, "", "none")

\* the background work of the oldest response
RunBackground ==
  /\ bg # <<>>
  /\ LET st == RunTasks(Stores, Head(bg))
     IN  /\ sessions' = st.sessions
         /\ bg' = Tail(bg)
  /\ turn' = NoTurn
  /\ UNCHANGED <<cache, ttl, profCache, bookings, nextId, faults, expired, inflight, probe>>

\* Redis drops a session key whose expiration has passed
ExpireSession(C) ==
  \E c \in C :
    /\ Len(bg) <= MaxPending
    /\ expired < MaxExpiries
    /\ cache[c] # <<>>
    /\ ttl[c] # NO_TTL
    /\ expired' = expired + 1
    /\ cache' = [cache EXCEPT ![c] = <<>>]
    /\ ttl' = [ttl EXCEPT ![c] = NO_TTL]
    /\ turn' = NoTurn
    /\ UNCHANGED <<profCache, sessions, bookings, nextId, faults, bg, inflight, probe>>

\* Redis drops a cached list of professionals after PROF_LIST_TTL
ExpireProfessionals ==
  \E key \in profCache :
    /\ Len(bg) <= MaxPending
    /\ profCache' = profCache \ {key}
    /\ turn' = NoTurn
    /\ UNCHANGED <<cache, ttl, sessions, bookings, nextId, faults, expired, bg, inflight, probe>>

(***************************************************************************)
(* Spec: one conversation, with collaborator faults and cache expiry.      *)
(***************************************************************************)
Single == {"c1"}

Next ==
  \/ NewChat(Single, Faults)
  \/ ContinueChat(Single, Faults)
  \/ DeleteBookingInfo(Single)
  \/ RunBackground
  \/ ExpireSession(Single)
  \/ ExpireProfessionals

Spec == Init /\ [][Next]_vars

(***************************************************************************)
(* SpecPair: two conversations whose turns do not overlap, collaborators    *)
(* healthy, session keys not expiring.                                     *)
(***************************************************************************)
PairFaults == {"none"}

NextPair ==
  \/ NewChat(Chats, PairFaults)
  \/ ContinueChat(Chats, PairFaults)
  \/ DeleteBookingInfo(Chats)
  \/ RunBackground
  \/ ExpireProfessionals

SpecPair == Init /\ [][NextPair]_vars

(***************************************************************************)
(* SpecHealthy: one conversation with healthy collaborators and session    *)
(* keys that do not expire, and the booking-info endpoints called with     *)
(* the id of the conversation and with an id that has no conversation.     *)
(***************************************************************************)
NextHealthy ==
  \/ NewChat(Single, PairFaults)
  \/ ContinueChat(Single, PairFaults)
  \/ GetBookingInfo(Chats)
  \/ DeleteBookingInfo(Chats)
  \/ RunBackground

SpecHealthy == Init /\ [][NextHealthy]_vars

(***************************************************************************)
(* SpecSlots: one conversation with healthy collaborators and session keys *)
(* that do not expire, whose user also asks for a second slot on a working *)
(* day of the professional.                                                *)
(***************************************************************************)
AskOtherSlot(C) ==
  \E c \in C, year \in Years, reply \in Replies :
    /\ Len(bg) <= MaxPending
    /\ LoadStage(cache[c], sessions[c]) = "awaiting_availability"
    /\ Apply(continue_chat(Stores, c, <<W("on"), Num(22, 2), W("oct"), W("at"), Time(10, 0)>>, year, reply, "none"),
             "continue_chat", c, <<W("on"), Num(22, 2), W("oct"), W("at"), Time(10, 0)>>,
             "awaiting_availability", "none")

NextSlots ==
  \/ NewChat(Single, PairFaults)
  \/ ContinueChat(Single, PairFaults)
  \/ AskOtherSlot(Single)
  \/ RunBackground

SpecSlots == Init /\ [][NextSlots]_vars

(***************************************************************************)
(* SpecResolve: the availability resolution of check_availability on its   *)
(* own, asked about every set of working days, with and without a          *)
(* configured default_time, for the days of three weeks: one inside a      *)
(* month, one across the end of a year, one across the end of a leap       *)
(* February.                                                               *)
(***************************************************************************)

InitResolve ==
  /\ cache = [c \in Chats |-> <<>>]
  /\ ttl = [c \in Chats |-> NO_TTL]
  /\ profCache = {}
  /\ sessions = [c \in Chats |-> <<>>]
  /\ bookings = <<>>
  /\ nextId = 1
  /\ faults = 0
  /\ expired = 0
  /\ bg = <<>>
  /\ turn = NoTurn
  /\ inflight = [c \in Chats |-> <<>>]
  /\ \E wd \in {SelectSeq(weekdays_map, LAMBDA d : d \in S) : S \in SUBSET Range(weekdays_map)},
        t \in {PyNone, Some(Time(9, 30))}, dt \in {AddDays(start, k) : start \in {<<2025, 10, 20>>, <<2025, 12, 29>>, <<2024, 2, 26>>}, k \in 0..6} :
       probe = [asked |-> TRUE, answered |-> FALSE, dt |-> dt,
                prof |-> [name |-> "Dr. Probe", working_days |-> wd, default_time |-> t]]

ResolveStep ==
  /\ probe.asked /\ ~probe.answered
  /\ probe' = [asked |-> TRUE, answered |-> TRUE, dt |-> probe.dt, prof |-> probe.prof,
               res |-> Resolve(probe.prof, probe.dt)]
  /\ UNCHANGED <<cache, ttl, profCache, sessions, bookings, nextId, faults, expired, bg, turn, inflight>>

NextResolve == ResolveStep

SpecResolve == InitResolve /\ [][NextResolve]_vars

(***************************************************************************)
(* SpecPreprocess: preprocess_user_input on its own, for every stage name  *)
(* and for messages of up to three words with and without whitespace at    *)
(* their ends: words of a booking request (a day that February never has,  *)
(* a day that only a leap February has, words that are no month) and       *)
(* words of a customer's introduction.                                     *)
(***************************************************************************)
MaxWords == 3
WordsUpTo(S, n) == UNION {[1..k -> S] : k \in 0..n}
ProbeMessages ==
  {pre \o body \o post :
     pre \in {<<>>, <<Space>>}, post \in {<<>>, <<Space>>},
     body \in WordsUpTo({W("on"), W("at"), Num(29, 2), Num(31, 2), W("feb"), Time(10, 0)}, MaxWords)
                \cup WordsUpTo({W("i"), W("am"), W("john"), Num(30, 2), Num(98765, 10), JohnMail}, MaxWords)
                \cup {InfoComplete, InfoNoEmail, OnMonday, IsoTuesday}}

InitPreprocess ==
  /\ cache = [c \in Chats |-> <<>>]
  /\ ttl = [c \in Chats |-> NO_TTL]
  /\ profCache = {}
  /\ sessions = [c \in Chats |-> <<>>]
  /\ bookings = <<>>
  /\ nextId = 1
  /\ faults = 0
  /\ expired = 0
  /\ bg = <<>>
  /\ turn = NoTurn
  /\ inflight = [c \in Chats |-> <<>>]
  /\ \E stage \in Stages \cup {"", "unknown"}, user_message \in ProbeMessages, year \in {2024, 2025} :
       probe = [asked |-> TRUE, answered |-> FALSE, stage |-> stage, user_message |-> user_message, year |-> year]

PreprocessStep ==
  /\ probe.asked /\ ~probe.answered
  /\ probe' = [asked |-> TRUE, answered |-> TRUE, stage |-> probe.stage, user_message |-> probe.user_message,
               year |-> probe.year,
               processed_input |-> preprocess_user_input(probe.stage, probe.user_message, probe.year)]
  /\ UNCHANGED <<cache, ttl, profCache, sessions, bookings, nextId, faults, expired, bg, turn, inflight>>

NextPreprocess == PreprocessStep

SpecPreprocess == InitPreprocess /\ [][NextPreprocess]_vars

(***************************************************************************)
(* SpecExtract: extract_recommendation on its own, for tool responses of   *)
(* every shape convert_tool_response knows: None, a dict, an object (the   *)
(* ToolResult of fastmcp, whose content holds TextContent objects), a list *)
(* of TextContent and a single TextContent; with and without structured    *)
(* content, a content list, a message and another string value.            *)
(***************************************************************************)
MaxItems == 2
SeeDoctor == <<W("Please see a doctor.")>>

\* the texts a content item may carry, with what json.loads makes of them
ProbeTextsOf ==
  {[text |-> SeeDoctor, json |-> PyNone],
   [text |-> <<W("{recommendation: Visit a dentist.}")>>, json |-> Some([recommendation |-> <<W("Visit a dentist.")>>])],
   [text |-> <<W("{prompt: Which day?}")>>, json |-> Some([prompt |-> <<W("Which day?")>>])],
   [text |-> <<W("{status: ok}")>>, json |-> Some([status |-> <<W("ok")>>])],
   [text |-> <<Num(42, 2)>>, json |-> Some(JsonScalar)],
   [text |-> <<>>, json |-> PyNone]}
TextContents == {[isDict |-> FALSE, text |-> x.text, json |-> x.json] : x \in ProbeTextsOf \ {[text |-> <<>>, json |-> PyNone]}}

KeyOrder(d) == SelectSeq(<<"content", "structured_content", "raw", "message">>, LAMBDA key : key \in DOMAIN d)

\* the dicts of the keys that are there, in the order they were set
ProbeDicts(items) ==
  {Entry("content", content) @@ Entry("structured_content", structured) @@ Entry("raw", raw)
     @@ Entry("message", message) :
     content \in {PyNone} \cup {Some(l) : l \in WordsUpTo(items, MaxItems)},
     structured \in {PyNone, Some(NoneV), Some(EmptyDict), Some([recommendation |-> Symptom]),
                     Some([recommendation |-> <<>>, prompt |-> CityPrompt]), Some([prompt |-> CityPrompt]),
                     Some([status |-> <<W("ok")>>])},
     raw \in {PyNone, Some(ReprText)}, message \in {PyNone, Some(SeeDoctor)}}

ProbeResponses ==
  {NoneV}
    \cup {DictV(d, KeyOrder(d)) : d \in ProbeDicts({[isDict |-> TRUE, text |-> x.text, json |-> x.json] : x \in ProbeTextsOf})}
    \cup {ObjV(d, KeyOrder(d)) : d \in ProbeDicts(TextContents)}
    \cup {ListV(l) : l \in WordsUpTo(TextContents, MaxItems)}
    \cup {TextContentV(x) : x \in TextContents}

InitExtract ==
  /\ cache = [c \in Chats |-> <<>>]
  /\ ttl = [c \in Chats |-> NO_TTL]
  /\ profCache = {}
  /\ sessions = [c \in Chats |-> <<>>]
  /\ bookings = <<>>
  /\ nextId = 1
  /\ faults = 0
  /\ expired = 0
  /\ bg = <<>>
  /\ turn = NoTurn
  /\ inflight = [c \in Chats |-> <<>>]
  /\ \E tool_response \in ProbeResponses :
       probe = [asked |-> TRUE, answered |-> FALSE, tool_response |-> tool_response]

ExtractStep ==
  /\ probe.asked /\ ~probe.answered
  /\ probe' = [asked |-> TRUE, answered |-> TRUE, tool_response |-> probe.tool_response,
               text |-> extract_recommendation(probe.tool_response)]
  /\ UNCHANGED <<cache, ttl, profCache, sessions, bookings, nextId, faults, expired, bg, turn, inflight>>

NextExtract == ExtractStep

SpecExtract == InitExtract /\ [][NextExtract]_vars

(***************************************************************************)
(* mcp/mcp_tools.py: the tools of the confirmation-gate flow.  The client  *)
(* calls them one at a time; check_availability keeps the slot it found    *)
(* free in the session hash and confirm_booking inserts the Booking.       *)
(***************************************************************************)
\* find_one({"name": {"$regex": "^<user_message>$", "$options": "i"}})
gate_select_professional(st, chat, user_message) ==
  LET p == FirstIndex(professionals,
                      LAMBDA q : Len(user_message) = 1 /\ IsWordAt(user_message, 1, Lower(q.name)))
      prof == professionals[p]
      name == IF Len(user_message) = 1 THEN user_message[1].w ELSE ""
  IN  IF p = 0
      THEN Returned(st, [status |-> "not_found",
                         recommendation |-> <<W("No professional named"), W(name), W("found.")>>])
      ELSE Returned(HsetExpire(st, chat, [selected_professional |-> prof.name, service_type |-> prof.type]),
                    [status |-> "success",
                     recommendation |-> <<W(prof.name), W("selected. Please provide your name, age, contact, and email.")>>,
                     session_update |-> [chat_id |-> chat, selected_professional |-> prof.name,
                                         service_type |-> prof.type, status |-> "in_progress"]])

\* name is a string, contact and email are texts, "" and <<>> when empty; the test of the missing
\* fields is not acted on, and redis-py refuses a mapping that holds None (DataError)
gate_collect_user_info(st, chat, name, age, contact, email) ==
  LET missing == (IF ~name.some \/ Val(name) = "" THEN <<"name">> ELSE <<>>)
                 \o (IF ~age.some \/ Val(age) <= 0 THEN <<"valid age">> ELSE <<>>)
                 \o (IF ~contact.some \/ Val(contact) = <<>> \/ ~ContactOk(Val(contact)[1])
                     THEN <<"valid contact">> ELSE <<>>)
                 \o (IF ~email.some \/ Val(email) = <<>> \/ ~ToolEmailOk(Val(email)[1])
                     THEN <<"valid email">> ELSE <<>>)
      customer_details == [name |-> Val(name), age |-> Val(age), contact |-> Val(contact), email |-> Val(email)]
  IN  IF ~name.some \/ ~age.some \/ ~contact.some \/ ~email.some THEN Raised(st)
      ELSE Returned(HsetExpire(st, chat, customer_details @@ [status |-> "details_collected"]),
                    [status |-> "complete",
                     recommendation |-> <<W("User info recorded for"), W(Val(name)), Num(Val(age), 0)>>
                                          \o Val(email) \o Val(contact) \o <<W("Is this detail correct?")>>,
                     session_update |-> [chat_id |-> chat, customer_details |-> customer_details,
                                         missing_field |-> missing, status |-> "details_collected"]])

\* msg = user_message.strip().lower(), looked up in the list of affirmative or of negative replies
Replied(user_message, words) ==
  LET msg == Strip(user_message) IN Len(msg) = 1 /\ msg[1].k = "word" /\ Lower(msg[1].w) \in words

\* confirm_user_info reads the session and writes nothing
gate_confirm_user_info(st, chat, user_message) ==
  LET session_cache == st.cache[chat]
      customer_name == IF "name" \in DOMAIN session_cache THEN session_cache.name ELSE ""
  IN  IF session_cache = <<>>
      THEN Returned(st, [status |-> "error",
                         recommendation |-> <<W("No user details found. Please provide your details again.")>>])
      ELSE IF Replied(user_message, {"yes", "y", "confirm", "yeah", "correct", "ok"})
      THEN Returned(st, [status |-> "confirmed",
                         recommendation |-> <<W("Thank you"), W(customer_name),
                                              W("! Let's proceed to schedule your appointment.")>>])
      ELSE IF Replied(user_message, {"no", "n", "wrong", "incorrect", "change", "edit"})
      THEN Returned(st, [status |-> "rejected",
                         recommendation |-> <<W("Alright. Please re-enter your details (name, age, contact, email).")>>])
      ELSE Returned(st, [status |-> "unclear",
                         recommendation |-> <<W("Please confirm: are your details correct? (yes/no)")>>])

gate_check_availability(st, chat, user_message) ==
  LET session_cache == st.cache[chat]
      selected_name == Get(session_cache, "selected_professional")
      p == FirstIndex(professionals, LAMBDA q : q.name = Val(selected_name))
      prof == professionals[p]
      d == FirstIndex(user_message, LAMBDA t : t.k = "iso")
      t == FirstIndex(user_message, LAMBDA u : u.k = "time")
      booking_date == user_message[d]
      booking_time == user_message[t]
      dt == <<booking_date.a, booking_date.b, booking_date.c>>
      res == Resolve(prof, dt)
      booking_id == st.nextId
      st1 == HsetExpire([st EXCEPT !.nextId = @ + 1], chat,
                        [booking_date |-> booking_date, booking_time |-> booking_time,
                         booking_id |-> booking_id])
      unavailable(text) == Returned(st, [status |-> "unavailable", recommendation |-> text])
  IN  IF ~selected_name.some THEN unavailable(NoSelectionText)
      ELSE IF p = 0 THEN unavailable(NotFoundText(Val(selected_name)))
      ELSE IF d = 0 \/ t = 0 THEN unavailable(DateTimePromptText)
      ELSE IF ~(ValidDate(dt[1], dt[2], dt[3]) /\ ValidTime(booking_time.a, booking_time.b)) THEN Raised(st)
      ELSE IF res.decision = "suggestion"
      THEN unavailable(SuggestionText(Val(selected_name), Weekday(dt), res.date, res.time))
      ELSE IF res.decision = "no_slot" THEN unavailable(NoSlotText(Val(selected_name)))
      ELSE IF Conflict(st.bookings, Val(selected_name), booking_date, booking_time)
      THEN unavailable(BookedText(Val(selected_name)))
      ELSE Returned(st1, [status |-> "In-progress",
                          recommendation |-> <<W("Here are your booking details ::"), W(Val(selected_name)),
                                               W("Are you sure you want to book on"), booking_date,
                                               booking_time, W("? (yes/no).")>>])

confirm_booking(st, chat, user_message) ==
  LET session_cache == st.cache[chat]
      booking_id == Get(session_cache, "booking_id")
      selected_name == Get(session_cache, "selected_professional")
      booking == [booking_id |-> Val(booking_id), chat_id |-> chat,
                  professional_name |-> IF selected_name.some THEN Val(selected_name) ELSE "None",
                  service_type |-> Get(session_cache, "service_type"),
                  customer_name |-> Get(session_cache, "name"), age |-> Get(session_cache, "age"),
                  contact |-> Get(session_cache, "contact"), email |-> Get(session_cache, "email"),
                  booking_date |-> Val(Get(session_cache, "booking_date")),
                  booking_time |-> Val(Get(session_cache, "booking_time")), status |-> "confirmed"]
      st1 == [st EXCEPT !.bookings = Append(@, booking)]
  IN  IF session_cache = <<>>
      THEN Returned(st, [status |-> "error", recommendation |-> <<W("No session found. Please start again.")>>])
      ELSE IF Replied(user_message, {"yes", "y", "confirm", "yeah", "correct", "ok"})
      THEN IF ~booking_id.some
           THEN Returned(st, [status |-> "error",
                              recommendation |-> <<W("No booking to confirm. Please provide date and time first.")>>])
           ELSE Returned(HsetExpire(st1, chat, [status |-> "booked"]),
                         [status |-> "confirmed",
                          recommendation |-> <<W("Booking confirmed! Your booking ID is"), Num(Val(booking_id), 1)>>])
      ELSE IF Replied(user_message, {"no", "n", "wrong", "incorrect", "change", "edit"})
      THEN Returned(st, [status |-> "rejected",
                         recommendation |-> <<W("Please provide your preferred booking date and time (YYYY-MM-DD at HH:MM).")>>])
      ELSE Returned(st, [status |-> "unclear", recommendation |-> <<W("Please confirm your booking (yes/no).")>>])

(***************************************************************************)
(* SpecGate: two conversations that select a professional, check a slot    *)
(* and confirm the booking with the tools of the confirmation-gate flow,   *)
(* one call at a time, with healthy collaborators.  SpecGateOne: one       *)
(* conversation that calls every tool of the flow, the two that take the   *)
(* customer details included.                                              *)
(***************************************************************************)
\* what a tool call leaves behind: the stores and the tool's return value, <<>> when it raised
GateCall(r, tool) == Outcome(r.st, <<>>, IF r.ret.some THEN Val(r.ret) ELSE <<>>, tool, ~r.ret.some)

GateSelect(C) ==
  \E c \in C, m \in {<<W("dr. raj sharma")>>, <<W("dr. rohan das")>>, <<W("Mumbai")>>} :
    /\ Len(bg) <= MaxPending
    /\ Apply(GateCall(gate_select_professional(Stores, c, m), "select_professional"),
             "select_professional", c, m, "", "none")

GateCollect(C) ==
  \E c \in C, name \in {PyNone, Some("John")}, contact \in {Some(<<>>), Some(<<Num(98765, 10)>>)} :
    /\ Len(bg) <= MaxPending
    /\ Apply(GateCall(gate_collect_user_info(Stores, c, name, Some(30), contact, Some(<<JohnMail>>)),
                      "collect_user_info"),
             "collect_user_info", c, <<>>, "", "none")

GateConfirmInfo(C) ==
  \E c \in C, m \in {<<W("yes"), Space>>, <<W("no")>>, <<W("sure")>>} :
    /\ Len(bg) <= MaxPending
    /\ Apply(GateCall(gate_confirm_user_info(Stores, c, m), "confirm_user_info"),
             "confirm_user_info", c, m, "", "none")

GateCheck(C) ==
  \E c \in C, m \in {<<>>, <<Iso(2025, 10, 20), W("at"), Time(10, 0)>>, <<Iso(2025, 2, 30), Time(10, 0)>>} :
    /\ Len(bg) <= MaxPending
    /\ Apply(GateCall(gate_check_availability(Stores, c, m), "check_availability"),
             "check_availability", c, m, "", "none")

GateConfirmAnyReply(C) ==
  \E c \in C, m \in {<<W("yes"), Space>>, <<W("no")>>, <<W("sure")>>} :
    /\ Len(bookings) < MaxBookings
    /\ Apply(GateCall(confirm_booking(Stores, c, <<W("yes")>>), "confirm_booking"), "confirm_booking", c, m, "", "none")

GateConfirm(C) ==
  \E c \in C, m \in {<<W("yes"), Space>>, <<W("no")>>, <<W("sure")>>} :
    /\ Len(bookings) < MaxBookings
    /\ Apply(GateCall(confirm_booking(Stores, c, m), "confirm_booking"), "confirm_booking", c, m, "", "none")

NextGate ==
  \/ GateSelect(Chats)
  \/ GateCheck(Chats)
  \/ GateConfirm(Chats)

SpecGate == Init /\ [][NextGate]_vars

NextGateOne ==
  \/ GateSelect(Single)
  \/ GateCollect(Single)
  \/ GateConfirmInfo(Single)
  \/ GateCheck(Single)
  \/ GateConfirm(Single)

SpecGateOne == Init /\ [][NextGateOne]_vars

(***************************************************************************)
(* SpecRace: two conversations whose availability turns may overlap.  A    *)
(* turn gives up control at every await: the turn of one conversation can  *)
(* stand at its conflict query (tools/mcp_tools.py, find_one) while the    *)
(* turn of the other runs, and goes on to its insert_one afterwards.       *)
(***************************************************************************)
\* the conflict query run again at the insert: C23 fails with it
OverlappedRequeried(st, seen) == st

\* the stores as a suspended turn knows them: the bookings are those its conflict query saw
Overlapped(st, seen) == [st EXCEPT !.bookings = seen]

\* the collection written back as the turn saw it at its conflict query: C29 fails with it
ResumeSeen(o, seen, now) == o

\* insert_one adds what the turn inserts to the collection as it is now
Resume(o, seen, now) == [o EXCEPT !.st.bookings = now \o SubSeq(@, Len(seen) + 1, Len(@))]

Idle == {c \in Chats : inflight[c] = <<>>}

\* the turn runs up to the answer of its conflict query
QueryAvailability(C) ==
  \E c \in C, year \in Years, reply \in Replies, m \in InputsAt("awaiting_availability") :
    /\ Len(bg) <= MaxPending
    /\ inflight[c] = <<>>
    /\ LoadStage(cache[c], sessions[c]) = "awaiting_availability"
    /\ inflight' = [inflight EXCEPT ![c] = [msg |-> m, year |-> year, reply |-> reply, seen |-> bookings]]
    /\ turn' = NoTurn
    /\ UNCHANGED <<cache, ttl, profCache, sessions, bookings, nextId, faults, expired, bg, probe>>

\* the turn goes on from the answer of its conflict query to its response
FinishAvailability(C) ==
  \E c \in C :
    /\ Len(bg) <= MaxPending
    /\ inflight[c] # <<>>
    /\ Apply(Resume(continue_chat(Overlapped(Stores, inflight[c].seen), c, inflight[c].msg, inflight[c].year,
                                  inflight[c].reply, "none"),
                    inflight[c].seen, bookings),
             "continue_chat", c, inflight[c].msg, "awaiting_availability", "none")

NextRace ==
  \/ NewChat(Idle, PairFaults)
  \/ ContinueChat(Idle, PairFaults)
  \/ QueryAvailability(Chats)
  \/ FinishAvailability(Chats)
  \/ RunBackground

SpecRace == Init /\ [][NextRace]_vars

(***************************************************************************)
(* SpecMerge: two writers of one session entry at the same time, the       *)
(* router with safe_hset and a tool with r.hset.  Redis serves the two     *)
(* HSET commands one after the other, in either order.  probe holds the    *)
(* entry before the writes, the two mappings and the writers served.       *)
(***************************************************************************)
InitMerge ==
  /\ ttl = [c \in Chats |-> NO_TTL]
  /\ profCache = {}
  /\ sessions = [c \in Chats |-> <<>>]
  /\ bookings = <<>>
  /\ nextId = 1
  /\ faults = 0
  /\ expired = 0
  /\ bg = <<>>
  /\ turn = NoTurn
  /\ inflight = [c \in Chats |-> <<>>]
  /\ \E entry \in {<<>>, [stage |-> "awaiting_user_info", selected_professional |-> "Dr. Raj Sharma"],
                   [stage |-> "recommendation", recommendation |-> Symptom, status |-> "complete"]},
        router \in {[stage |-> Some(stage)] : stage \in Stages}
                     \cup {[stage |-> Some("awaiting_city"), recommendation |-> r] :
                             r \in {PyNone} \cup {Some(reply) : reply \in Replies}},
        tool \in {[customer_name |-> "John", age |-> 30, contact |-> Num(98765, 10), email |-> JohnMail],
                  [selected_professional |-> "Dr. Rohan Das", service_type |-> "Cardiologist"],
                  [recommendation |-> CityPrompt, messages |-> Symptom]} :
       /\ cache = [c \in Chats |-> IF c = "c1" THEN entry ELSE <<>>]
       /\ probe = [asked |-> TRUE, answered |-> FALSE, entry |-> entry, router |-> router, tool |-> tool,
                   served |-> <<>>]

\* the HSET of a writer is served
MergeStep(st, writer) ==
  /\ cache' = st.cache
  /\ ttl' = st.ttl
  /\ probe' = [probe EXCEPT !.served = Append(@, writer), !.answered = (Len(probe.served) = 1)]
  /\ UNCHANGED <<profCache, sessions, bookings, nextId, faults, expired, bg, turn, inflight>>

RouterMerge ==
  /\ "router" \notin Range(probe.served)
  /\ MergeStep(safe_hset(Stores, "c1", probe.router), "router")

ToolMerge ==
  /\ "tool" \notin Range(probe.served)
  /\ MergeStep(HsetExpire(Stores, "c1", probe.tool), "tool")

NextMerge == RouterMerge \/ ToolMerge

SpecMerge == InitMerge /\ [][NextMerge]_vars

(***************************************************************************)
(* Properties.  turn describes the request that led to the current state;  *)
(* the stores are the ones the request left behind.                        *)
(***************************************************************************)
\* the stage the next turn of the conversation would load
PersistedStage(c) == LoadStage(cache[c], sessions[c])

FaultFreeContinue(stage) == turn.op = "continue_chat" /\ turn.stage = stage /\ turn.fault = "none"

\* no collaborator has failed since the start
Healthy == faults = 0

Status(payload) == IF "status" \in DOMAIN payload THEN payload.status ELSE "absent"

\* the professionals list_professionals stored for the conversation
Listed(c) == IF "professionals" \in DOMAIN sessions[c] THEN sessions[c].professionals ELSE <<>>

NamesListed(c, msg) == \E p \in Range(Listed(c)) : \E j \in 1..Len(msg) : IsWordAt(msg, j, Lower(p.name))

\* name, age, a contact of ten digits and an email of the form word@word.word
AllFourFields(msg) ==
  LET info == extract_user_info_from_text(msg)
  IN  /\ DOMAIN info = {"name", "age", "contact", "email"}
      /\ info.contact.k = "num" /\ info.contact.b = 10
      /\ info.email.k = "email" /\ info.email.a = 0 /\ info.email.b = 1

SameSlot(b1, b2) ==
  /\ b1.professional_name = b2.professional_name
  /\ b1.booking_date = b2.booking_date
  /\ b1.booking_time = b2.booking_time

(***************************************************************************)
(* C1: after any sequence of non-overlapping turns of the conversations,   *)
(* the bookings collection holds at most one confirmed Booking for every   *)
(* (professional_name, booking_date, booking_time), and an attempt on a    *)
(* slot that is booked already returns status unavailable and books        *)
(* nothing.                                                                *)
(***************************************************************************)
C1_OneBookingPerSlot ==
  /\ \A i, j \in 1..Len(bookings) :
       (SameSlot(bookings[i], bookings[j]) /\ bookings[i].status = "confirmed" /\ bookings[j].status = "confirmed")
         => i = j
  /\ \A c \in Chats : \A i \in 1..Len(bookings) :
       Get(cache[c], "selected_professional") = Some(bookings[i].professional_name)
         => LET again == check_availability(Stores, c, <<bookings[i].booking_date, bookings[i].booking_time>>, "none")
            IN  again.ret.some /\ Val(again.ret).status = "unavailable" /\ again.st = Stores
  /\ (turn.op = "continue_chat" /\ \E i \in 1..Len(bookings) :
        /\ Some(bookings[i].booking_id) # turn.booked
        /\ turn.payload.response = Some(BookedText(bookings[i].professional_name)))
       => turn.booked = PyNone /\ turn.payload.status = "in_progress"

\* a second conversation asked for the slot the first one holds, and was refused
C1_SecondAttemptRefused ==
  /\ turn.op = "continue_chat"
  /\ turn.tool = "check_availability"
  /\ turn.payload.response = Some(BookedText("Dr. Raj Sharma"))
  /\ \E i \in 1..Len(bookings) :
       bookings[i].chat_id # turn.chat /\ bookings[i].professional_name = "Dr. Raj Sharma"

(***************************************************************************)
(* C2: a continue-chat turn with well-formed input for its stage           *)
(* (recommendation: a message; awaiting_city: a known city;                *)
(* awaiting_prof_selection: the name of a listed professional;             *)
(* awaiting_user_info: name, age, contact and email) moves the persisted   *)
(* stage to exactly the next stage of the order, never further.            *)
(***************************************************************************)
StageAfter(stage) ==
  CASE stage = "recommendation" -> "awaiting_city"
    [] stage = "awaiting_city" -> "awaiting_prof_selection"
    [] stage = "awaiting_prof_selection" -> "awaiting_user_info"
    [] stage = "awaiting_user_info" -> "awaiting_availability"

WellFormed(stage, c, msg) ==
  CASE stage = "recommendation" -> msg # <<>>
    [] stage = "awaiting_city" -> CityMatch(msg).some
    [] stage = "awaiting_prof_selection" -> NamesListed(c, msg)
    [] stage = "awaiting_user_info" -> AllFourFields(msg)

C2_OneStepForward ==
  \A stage \in {"recommendation", "awaiting_city", "awaiting_prof_selection", "awaiting_user_info"} :
    (FaultFreeContinue(stage) /\ WellFormed(stage, turn.chat, turn.msg))
      => PersistedStage(turn.chat) = StageAfter(stage)

\* the customer data was complete and the conversation moved on to the availability stage
C2_UserInfoAdvanced ==
  /\ FaultFreeContinue("awaiting_user_info")
  /\ AllFourFields(turn.msg)
  /\ turn.tool = "collect_user_info"
  /\ PersistedStage(turn.chat) = "awaiting_availability"

(***************************************************************************)
(* C3: at awaiting_city a message that names no known city leaves the      *)
(* persisted stage at awaiting_city and is answered with a prompt for a    *)
(* valid city; the stage becomes awaiting_prof_selection only when         *)
(* list_professionals recognised a city.                                   *)
(***************************************************************************)
C3_UnknownCityStays ==
  (Healthy /\ FaultFreeContinue("awaiting_city"))
    => /\ ~CityMatch(turn.msg).some
            => /\ PersistedStage(turn.chat) = "awaiting_city"
               /\ turn.payload.response \in {Some(ValidCityText), Some(NoCityText)}
       /\ PersistedStage(turn.chat) = "awaiting_prof_selection"
            => turn.tool = "list_professionals" /\ CityMatch(turn.msg).some

(***************************************************************************)
(* C4: at awaiting_prof_selection a message that matches no listed         *)
(* professional leaves the persisted stage at awaiting_prof_selection and  *)
(* asks for the name again; the stage becomes awaiting_user_info only      *)
(* when select_professional stored a selected professional.                *)
(***************************************************************************)
C4_NoMatchStays ==
  (Healthy /\ FaultFreeContinue("awaiting_prof_selection"))
    => /\ ~NamesListed(turn.chat, turn.msg)
            => /\ PersistedStage(turn.chat) = "awaiting_prof_selection"
               /\ turn.payload.response \in {Some(SelectFromListText), Some(NoNameText), Some(ListFirstText)}
       /\ PersistedStage(turn.chat) = "awaiting_user_info"
            => /\ turn.tool = "select_professional"
               /\ "selected_professional" \in DOMAIN cache[turn.chat]
               /\ "selected_professional" \in DOMAIN sessions[turn.chat]

(***************************************************************************)
(* C5: at awaiting_user_info incomplete or invalid customer data leaves    *)
(* the persisted stage at awaiting_user_info; when the contact is what is  *)
(* wrong (12345, five digits) the response lists "valid contact number";   *)
(* the stage becomes awaiting_availability only when name, age, contact    *)
(* and email were all accepted.                                            *)
(***************************************************************************)
C5_IncompleteInfoStays ==
  (Healthy /\ FaultFreeContinue("awaiting_user_info"))
    => /\ ~AllFourFields(turn.msg) => PersistedStage(turn.chat) = "awaiting_user_info"
       /\ turn.msg = InfoShortContact
            => \E i \in 1..Len(Val(turn.payload.response)) :
                 Val(turn.payload.response)[i] = W("valid contact number")
       /\ PersistedStage(turn.chat) = "awaiting_availability"
            => /\ turn.tool = "collect_user_info"
               /\ {"customer_name", "age", "contact", "email"} \subseteq DOMAIN cache[turn.chat]

(***************************************************************************)
(* C6: at awaiting_availability a message with an ISO date and an HH:MM    *)
(* time reaches check_availability with that date and time: 2025-10-21 at  *)
(* 10:00 for a professional working Monday, Wednesday and Friday is        *)
(* answered with the suggestion 2025-10-22, and a request for a free slot  *)
(* on a working day ends with status confirmed.                            *)
(***************************************************************************)
IsoDateAndTime(msg) == (\E i \in 1..Len(msg) : msg[i].k = "iso") /\ (\E i \in 1..Len(msg) : msg[i].k = "time")

IsoDateOf(msg) == msg[FirstIndex(msg, LAMBDA t : t.k = "iso")]
IsoTimeOf(msg) == msg[FirstIndex(msg, LAMBDA t : t.k = "time")]

\* every booking of the slot is the one the turn made: the slot was free before the turn
FreeBefore(name, date, time) ==
  \A i \in 1..Len(bookings) :
    (bookings[i].professional_name = name /\ bookings[i].booking_date = date /\ bookings[i].booking_time = time)
      => turn.booked = Some(bookings[i].booking_id)

C6_IsoReachesAvailability ==
  (Healthy /\ FaultFreeContinue("awaiting_availability") /\ IsoDateAndTime(turn.msg)
     /\ "selected_professional" \in DOMAIN sessions[turn.chat])
    => LET prof == sessions[turn.chat].selected_professional
           date == IsoDateOf(turn.msg)
           time == IsoTimeOf(turn.msg)
           dt == <<date.a, date.b, date.c>>
       IN  /\ turn.tool = "check_availability"
           /\ (dt = <<2025, 10, 21>> /\ Range(prof.working_days) = {"Monday", "Wednesday", "Friday"})
                => turn.payload.response
                     = Some(SuggestionText(prof.name, "Tuesday", <<2025, 10, 22>>, DEFAULT_TIME))
           /\ (Weekday(dt) \in Range(prof.working_days) /\ FreeBefore(prof.name, date, time))
                => Status(turn.payload) = "confirmed"

(***************************************************************************)
(* C7: on a requested date whose weekday is a working day the resolver     *)
(* answers available; otherwise it suggests the earliest of the next six   *)
(* days whose weekday is a working day, at the professional's default_time *)
(* or at 10:00 when none is configured; it reports no slot exactly when    *)
(* no day of the seven-day window is a working day.  Working Monday and    *)
(* Wednesday, asked for a Tuesday, it suggests the Wednesday one day       *)
(* later.                                                                  *)
(***************************************************************************)
C7_Resolution ==
  (probe.asked /\ probe.answered)
    => LET wd == Range(probe.prof.working_days)
           dt == probe.dt
           res == probe.res
           Later == {k \in 1..6 : Weekday(AddDays(dt, k)) \in wd}
           first == CHOOSE k \in Later : \A j \in Later : k <= j
       IN  /\ Weekday(dt) \in wd => res.decision = "available" /\ res.date = dt
           /\ (Weekday(dt) \notin wd /\ Later # {})
                => /\ res.decision = "suggestion"
                   /\ res.date = AddDays(dt, first)
                   /\ res.time = (IF probe.prof.default_time.some THEN Val(probe.prof.default_time) ELSE Time(10, 0))
           /\ res.decision = "no_slot" <=> \A k \in 0..6 : Weekday(AddDays(dt, k)) \notin wd
           /\ (wd = {"Monday", "Wednesday"} /\ Weekday(dt) = "Tuesday")
                => res.decision = "suggestion" /\ res.date = AddDays(dt, 1) /\ Weekday(res.date) = "Wednesday"

\* the Tuesday of the last week of the year, asked of a professional working Monday and Wednesday
C7_TuesdaySuggestsWednesday ==
  /\ probe.asked /\ probe.answered
  /\ Range(probe.prof.working_days) = {"Monday", "Wednesday"}
  /\ probe.dt = <<2025, 12, 30>>
  /\ probe.res.decision = "suggestion"
  /\ probe.res.date = <<2025, 12, 31>>

(***************************************************************************)
(* C8 as stated: every new-chat and continue-chat turn returns normally,   *)
(* with a response that is a string and with a status field.               *)
(***************************************************************************)
C8_StatusAlwaysPresent ==
  turn.op \in {"new_chat", "continue_chat"}
    => /\ ~turn.raised
       /\ "response" \in DOMAIN turn.payload /\ turn.payload.response.some
       /\ "status" \in DOMAIN turn.payload

(***************************************************************************)
(* C8, amended: every new-chat and continue-chat turn returns normally     *)
(* whatever happens inside the dispatch, a raising tool and a raising      *)
(* cache write included; the response is a string; a continue-chat payload *)
(* has a status field, a new-chat payload is chat_id and response alone.   *)
(***************************************************************************)
C8_ReturnsNormally ==
  /\ turn.op \in {"new_chat", "continue_chat"}
       => /\ ~turn.raised
          /\ "response" \in DOMAIN turn.payload /\ turn.payload.response.some
  /\ turn.op = "continue_chat" => "status" \in DOMAIN turn.payload
  /\ turn.op = "new_chat" => DOMAIN turn.payload = {"chat_id", "response"}

\* the availability check raised and the turn answered all the same
C8_ToolRaisedAndAnswered ==
  /\ turn.op = "continue_chat"
  /\ turn.tool = "check_availability"
  /\ turn.toolRaised
  /\ turn.payload.response.some
  /\ turn.payload.status = "in_progress"

(***************************************************************************)
(* C9: when a collaborator fails inside the domain operation of a turn,    *)
(* the persisted stage and the session fields after the turn are those     *)
(* from before it (for a new chat: the stage recommendation it was created *)
(* with).                                                                  *)
(***************************************************************************)
C9_FaultLeavesSessionUnchanged ==
  [][(turn'.op \in {"new_chat", "continue_chat"} /\ turn'.toolRaised)
       => /\ LoadStage(cache'[turn'.chat], sessions'[turn'.chat]) = turn'.stage
          /\ turn'.op = "continue_chat"
               => cache'[turn'.chat] = cache[turn'.chat] /\ sessions'[turn'.chat] = sessions[turn'.chat]]_vars

(***************************************************************************)
(* C10: a continue-chat turn returns status in_progress or confirmed; it   *)
(* returns confirmed exactly when the turn created a Booking, and the      *)
(* confirmed payload carries the booking_id of that Booking.  Stated for   *)
(* the turns of a system whose collaborators have not failed.              *)
(***************************************************************************)
C10_ConfirmedCarriesBookingId ==
  (Healthy /\ turn.op = "continue_chat")
    => /\ Status(turn.payload) \in {"in_progress", "confirmed"}
       /\ Status(turn.payload) = "confirmed" <=> turn.booked.some
       /\ Status(turn.payload) = "confirmed"
            => "booking_id" \in DOMAIN turn.payload /\ Some(turn.payload.booking_id) = turn.booked

(***************************************************************************)
(* C11: a continue-chat turn at awaiting_availability that ends confirmed  *)
(* deletes the session entry of the cache and leaves the durable session   *)
(* records as they were; the Booking it created is in the bookings         *)
(* collection.  When the turn has returned, the cache holds no session     *)
(* entry of the conversation.                                              *)
(***************************************************************************)
C11_ConfirmedDropsCacheOnly ==
  [][(turn'.op = "continue_chat" /\ Status(turn'.payload) = "confirmed")
       => /\ turn'.stage = "awaiting_availability"
          /\ cache'[turn'.chat] = <<>>
          /\ ttl'[turn'.chat] = NO_TTL
          /\ sessions' = sessions
          /\ sessions'[turn'.chat] # <<>>
          /\ Len(bookings') = Len(bookings) + 1
          /\ SubSeq(bookings', 1, Len(bookings)) = bookings
          /\ bookings'[Len(bookings')].chat_id = turn'.chat
          /\ bookings'[Len(bookings')].status = "confirmed"]_vars

\* a confirmed turn has returned: its cache entry is gone, its session record and Booking are there
C11_ConfirmedAndCleared ==
  /\ turn.op = "continue_chat"
  /\ turn.stage = "awaiting_availability"
  /\ Status(turn.payload) = "confirmed"
  /\ cache[turn.chat] = <<>>
  /\ "selected_professional" \in DOMAIN sessions[turn.chat]
  /\ \E i \in 1..Len(bookings) : bookings[i].chat_id = turn.chat

(***************************************************************************)
(* C12: stage complete is terminal.  Once a booking of a conversation has  *)
(* been confirmed, every later continue-chat turn of that conversation     *)
(* finds the stage complete, invokes no domain operation and creates no    *)
(* Booking.                                                                *)
(***************************************************************************)
\* an earlier turn of the conversation c was confirmed: a Booking of c that this turn did not create
ConfirmedBefore(c) ==
  \E i \in 1..Len(bookings) : bookings[i].chat_id = c /\ Some(bookings[i].booking_id) # turn.booked

C12_CompleteIsTerminal ==
  (Healthy /\ turn.op = "continue_chat" /\ ConfirmedBefore(turn.chat))
    => /\ turn.stage = "complete"
       /\ turn.tool = "none"
       /\ turn.booked = PyNone

(***************************************************************************)
(* C13: a new-chat turn with a non-empty message works on a session of a   *)
(* fresh conversation id that starts at stage recommendation and invokes   *)
(* recommend_service once; when the tool and the router succeed, the       *)
(* persisted stage is awaiting_city and the payload carries the            *)
(* conversation id and the text extracted from the tool result, the        *)
(* recommendation the language model gave.                                 *)
(***************************************************************************)
C13_NewChatRecommends ==
  (turn.op = "new_chat" /\ turn.msg # <<>>)
    => /\ turn.stage = "recommendation"
       /\ turn.tool = "recommend_service"
       /\ turn.payload.chat_id = turn.chat
       /\ "stage" \in DOMAIN cache[turn.chat]
       /\ turn.fault = "none"
            => /\ ~turn.toolRaised
               /\ cache[turn.chat].stage = "awaiting_city"
               /\ PersistedStage(turn.chat) = "awaiting_city"
               /\ \E reply \in Replies :
                    /\ turn.payload.response = Some(reply)
                    /\ cache[turn.chat].recommendation = reply

\* a new conversation opened with a symptom and was answered with the recommendation
C13_NewChatAnswered ==
  /\ turn.op = "new_chat"
  /\ turn.msg = Symptom
  /\ turn.fault = "none"
  /\ turn.tool = "recommend_service"
  /\ turn.payload.response \in {Some(reply) : reply \in Replies}
  /\ cache[turn.chat].stage = "awaiting_city"

(***************************************************************************)
(* C14: a new-chat turn whose message is empty after trimming returns the  *)
(* conversation id and the prompt to enter a valid message, invokes no     *)
(* tool, and leaves the session it created at stage recommendation.        *)
(***************************************************************************)
C14_EmptyMessagePrompts ==
  (turn.op = "new_chat" /\ turn.msg = <<>>)
    => /\ turn.tool = "none"
       /\ ~turn.raised
       /\ turn.payload = [chat_id |-> turn.chat, response |-> Some(EnterMessageText)]
       /\ cache[turn.chat] = [stage |-> "recommendation"]
       /\ PersistedStage(turn.chat) = "recommendation"
       /\ \A i \in 1..Len(bookings) : bookings[i].chat_id # turn.chat

\* a new conversation opened with an empty message and was asked for a message
C14_EmptyMessageAsked ==
  /\ turn.op = "new_chat"
  /\ turn.msg = <<>>
  /\ turn.payload.response = Some(EnterMessageText)
  /\ cache[turn.chat] = [stage |-> "recommendation"]

(***************************************************************************)
(* C15: at every stage from recommendation to awaiting_availability, when  *)
(* a continue-chat turn invokes the operation of the stage and the result  *)
(* of the tool carries a non-empty recommendation in its structured        *)
(* content, the response of the turn is that recommendation.               *)
(***************************************************************************)
\* what the operation of the stage returns for the message, called on the stores as they are
StageToolResult(c, stage, msg, year, reply) ==
  LET processed_input == preprocess_user_input(stage, msg, year)
  IN  CASE stage = "recommendation" -> recommend_service(Stores, c, processed_input.str, reply, "none")
        [] stage = "awaiting_city" -> list_professionals(Stores, c, processed_input.str, "none")
        [] stage = "awaiting_prof_selection" -> select_professional(Stores, c, processed_input.str, "none")
        [] stage = "awaiting_user_info" -> collect_user_info(Stores, c, processed_input.info, "none")
        [] stage = "awaiting_availability" ->
             check_availability(Stores, c, <<Val(processed_input.booking.booking_date),
                                             Val(processed_input.booking.booking_time)>>, "none")

C15_ResponseIsRecommendation ==
  \A c \in Chats, year \in Years, reply \in Replies :
    \A msg \in InputsAt(PersistedStage(c)) :
      LET Agree(o, res) ==
            (/\ o.tool # "none"
             /\ res.ret.some
             /\ "recommendation" \in DOMAIN Val(res.ret)
             /\ Val(res.ret).recommendation # <<>>)
              => o.payload.response = Some(Val(res.ret).recommendation)
      IN  PersistedStage(c) \in Stages \ {"complete"}
            => Agree(continue_chat(Stores, c, msg, year, reply, "none"),
                     StageToolResult(c, PersistedStage(c), msg, year, reply))

\* turns that ran the tool of their stage and answered with its recommendation
C15_ToolTextReturned ==
  /\ turn.op = "continue_chat"
  /\ turn.fault = "none"
  /\ turn.stage = "awaiting_prof_selection"
  /\ turn.tool = "select_professional"
  /\ turn.payload.response = Some(SelectedText("Dr. Raj Sharma", "Cardiologist"))

(***************************************************************************)
(* C16: the booking-info read is idempotent and read-only.  A GET leaves   *)
(* the durable stores, the cache and the background queue as they were,    *)
(* and a second GET with the same id, with no write in between, returns    *)
(* the output of the first.                                                *)
(***************************************************************************)
C16_ReadOnlyAndIdempotent ==
  /\ \A c \in Chats :
       LET Twice(first) ==
             /\ first.st = Stores
             /\ first.tasks = <<>>
             /\ ~first.raised
             /\ get_booking_info(first.st, c).payload = first.payload
       IN  Twice(get_booking_info(Stores, c))
  /\ turn.op = "get_booking_info" => get_booking_info(Stores, turn.chat).payload = turn.payload

\* a GET returned a Booking that is still in the collection
C16_ReadLeftBooking ==
  /\ turn.op = "get_booking_info"
  /\ Status(turn.payload) = "success"
  /\ \E i \in 1..Len(bookings) : bookings[i].booking_id = turn.payload.booking_info.booking_id

(***************************************************************************)
(* C17: GET booking-info returns status success, the id and the snapshot   *)
(* of a Booking whose chat_id is the given id exactly when the collection  *)
(* holds such a Booking; otherwise it returns status error and the         *)
(* not-found message.                                                      *)
(***************************************************************************)
BookingsOf(c) == SelectSeq(bookings, LAMBDA b : b.chat_id = c)

C17_SuccessIffBookingExists ==
  \A c \in Chats :
    LET Answer(payload) ==
          IF BookingsOf(c) # <<>>
          THEN /\ DOMAIN payload = {"status", "chat_id", "booking_info"}
               /\ payload.status = "success"
               /\ payload.chat_id = c
               /\ DOMAIN payload.booking_info = BookingInfoKeys
               /\ \E i \in 1..Len(bookings) :
                    /\ bookings[i].chat_id = c
                    /\ \A key \in BookingInfoKeys : payload.booking_info[key] = bookings[i][key]
          ELSE payload = [status |-> "error", message |-> ChatNotFoundText]
    IN  Answer(get_booking_info(Stores, c).payload)

\* a GET returned the Booking the conversation confirmed with Dr. Raj Sharma
C17_ConfirmedBookingRead ==
  /\ turn.op = "get_booking_info"
  /\ turn.payload.status = "success"
  /\ turn.payload.chat_id = turn.chat
  /\ turn.payload.booking_info.professional_name = "Dr. Raj Sharma"
  /\ BookingsOf(turn.chat) # <<>>

(***************************************************************************)
(* C18: DELETE booking-info removes a Booking of the conversation and      *)
(* returns success when one exists; when none exists it fails with 404     *)
(* and leaves the bookings collection unchanged.                           *)
(***************************************************************************)
C18_DeleteOneOr404 ==
  \A c \in Chats :
    LET Removed(o) ==
          IF BookingsOf(c) # <<>>
          THEN /\ ~o.raised
               /\ o.payload.status = "success"
               /\ Len(o.st.bookings) = Len(bookings) - 1
               /\ SelectSeq(o.st.bookings, LAMBDA b : b.chat_id = c) = Tail(BookingsOf(c))
               /\ SelectSeq(o.st.bookings, LAMBDA b : b.chat_id # c) = SelectSeq(bookings, LAMBDA b : b.chat_id # c)
               /\ [o.st EXCEPT !.bookings = bookings] = Stores
          ELSE /\ o.raised
               /\ o.payload.status_code = 404
               /\ o.st = Stores
    IN  Removed(delete_booking_info(Stores, c))

\* a DELETE removed the only Booking of its conversation
C18_BookingDeleted ==
  /\ turn.op = "delete_booking_info"
  /\ ~turn.raised
  /\ turn.payload.status = "success"
  /\ BookingsOf(turn.chat) = <<>>
  /\ nextId > 1

(***************************************************************************)
(* C19: for every stage name and every message, preprocess_user_input      *)
(* returns without raising: a field map (of customer fields at             *)
(* awaiting_user_info, of booking_date and booking_time at                 *)
(* awaiting_availability) at these two stages, and the message without     *)
(* the whitespace at its ends, as a string, at every other stage.          *)
(***************************************************************************)
\* s is text without the whitespace at its ends
Trimmed(text, s) ==
  /\ s # <<>> => s[1].k # "space" /\ s[Len(s)].k # "space"
  /\ \E i, j \in 0..Len(text) :
       /\ i + Len(s) + j = Len(text)
       /\ SubSeq(text, i + 1, i + Len(s)) = s
       /\ \A n \in (1..i) \cup ((i + Len(s) + 1)..Len(text)) : text[n].k = "space"

C19_PreprocessTotal ==
  /\ (probe.asked /\ ~probe.answered)
       => preprocess_user_input(probe.stage, probe.user_message, probe.year).type \in {"dict", "str"}
  /\ (probe.asked /\ probe.answered)
       => LET out == probe.processed_input
          IN  CASE probe.stage = "awaiting_user_info" ->
                     /\ out.type = "dict"
                     /\ DOMAIN out.info \subseteq {"name", "age", "contact", "email"}
                [] probe.stage = "awaiting_availability" ->
                     /\ out.type = "dict"
                     /\ DOMAIN out.booking = {"booking_date", "booking_time"}
                     /\ \A key \in DOMAIN out.booking : out.booking[key].some \in BOOLEAN
                [] OTHER ->
                     /\ out.type = "str"
                     /\ Trimmed(probe.user_message, out.str)

\* a message with whitespace at both ends came back trimmed at a stage that extracts nothing
C19_TrimmedAtOtherStage ==
  /\ probe.asked /\ probe.answered
  /\ probe.stage = "awaiting_city"
  /\ probe.user_message = <<Space, W("feb"), Space>>
  /\ probe.processed_input.type = "str"
  /\ probe.processed_input.str = <<W("feb")>>

(***************************************************************************)
(* C20: extract_recommendation chooses the text to display by a fixed      *)
(* precedence over the shape of the result: the non-empty structured       *)
(* recommendation; else the structured prompt; else the first text item    *)
(* of the content list (its recommendation or prompt when the text parses  *)
(* as JSON, the raw text otherwise); else the message field; else the      *)
(* first value that is a string; else the fixed fallback.  The same        *)
(* result always yields the same text.                                     *)
(***************************************************************************)
\* the fields of a result, whatever its Python type
FieldsOf(result) == IF result.t \in {"dict", "object"} THEN result.d ELSE <<>>

\* the items of its content list: of the list itself when the result is a list, the one item
\* when it is a single text
ContentOf(result) ==
  IF result.t = "list" THEN result.d.items
  ELSE IF result.t = "text_content" THEN <<result.d>>
  ELSE IF "content" \in DOMAIN FieldsOf(result) THEN FieldsOf(result).content
  ELSE <<>>

StructuredOf(result) ==
  IF "structured_content" \in DOMAIN FieldsOf(result) /\ FieldsOf(result).structured_content # NoneV
  THEN FieldsOf(result).structured_content
  ELSE <<>>

\* what a text item displays: the raw text when it is not JSON, the recommendation or the prompt
\* of its JSON when it is; nothing when the JSON has neither, and the choice moves on
ItemText(item) ==
  IF item.text = <<>> THEN PyNone
  ELSE IF ~item.json.some THEN Some(item.text)
  ELSE IF Val(item.json) = JsonScalar THEN PyNone
  ELSE IF "recommendation" \in DOMAIN Val(item.json) THEN Some(Val(item.json).recommendation)
  ELSE IF "prompt" \in DOMAIN Val(item.json) THEN Some(Val(item.json).prompt)
  ELSE PyNone

ClaimedText(result) ==
  LET structured == StructuredOf(result)
      fields == FieldsOf(result)
      i == FirstIndex(ContentOf(result), LAMBDA item : ItemText(item).some)
      s == FirstIndex(result.order, LAMBDA key : key \in StringKeys)
  IN  IF "recommendation" \in DOMAIN structured /\ structured.recommendation # <<>> THEN structured.recommendation
      ELSE IF "prompt" \in DOMAIN structured /\ structured.prompt # <<>> THEN structured.prompt
      ELSE IF i # 0 THEN Val(ItemText(ContentOf(result)[i]))
      ELSE IF "message" \in DOMAIN fields THEN fields.message
      ELSE IF s # 0 THEN fields[result.order[s]]
      ELSE Fallback

C20_FixedPrecedence ==
  (probe.asked /\ probe.answered)
    => /\ probe.text = ClaimedText(probe.tool_response)
       /\ probe.text = extract_recommendation(probe.tool_response)

(***************************************************************************)
(* C21: extract_recommendation is total.  For every result, None, an       *)
(* empty result, a content item without text and a JSON text that is no    *)
(* map included, it returns a string and never raises; whenever the        *)
(* extraction raises inside, the fixed fallback string is what comes back. *)
(***************************************************************************)
IsString(x) == DOMAIN x = 1..Len(x) /\ \A i \in 1..Len(x) : x[i].k \in {"word", "num", "iso", "time", "email", "space"}

\* the first content item that stops the loop of extract_recommendation by an exception: an
\* object without get(), or a JSON text that is no map
RaisingItem(result) ==
  LET content_list == IF "content" \in DOMAIN FieldsOf(result) THEN FieldsOf(result).content ELSE <<>>
      i == FirstIndex(content_list, LAMBDA item : ~item.isDict \/ ItemText(item).some
                                                   \/ (item.json.some /\ Val(item.json) = JsonScalar))
  IN  i # 0 /\ (~content_list[i].isDict \/ (content_list[i].text # <<>> /\ content_list[i].json = Some(JsonScalar)))

\* the results on which the extraction raises inside
RaisesInside(result) ==
  /\ result.t \in {"dict", "object"}
  /\ result.d # <<>>
  /\ \/ "structured_content" \in DOMAIN result.d /\ result.d.structured_content = NoneV
     \/ ~RecOrPrompt(StructuredOf(result)).some /\ RaisingItem(result)

C22_GateOneBookingPerSlot ==
  \A i, j \in 1..Len(bookings) :
    (/\ bookings[i].status = "confirmed"
     /\ bookings[j].status = "confirmed"
     /\ SameSlot(bookings[i], bookings[j])) => i = j

(***************************************************************************)
(* C23.  Two bookings of one slot can race.  A turn whose conflict query   *)
(* found the slot free inserts a confirmed Booking and reports confirmed   *)
(* when it goes on, whatever the other conversation inserted in between:   *)
(* with both conflict queries before either insert, both turns insert and  *)
(* both report confirmed.                                                  *)
(***************************************************************************)
FreeWhenQueried(c) ==
  /\ inflight[c] # <<>>
  /\ continue_chat([Stores EXCEPT !.bookings = inflight[c].seen], c, inflight[c].msg, inflight[c].year,
                   inflight[c].reply, "none").payload.status = "confirmed"

C23_QueriedFreeInserts ==
  [][\A c \in Chats :
       (FreeWhenQueried(c) /\ inflight'[c] = <<>>)
         => /\ Len(bookings') = Len(bookings) + 1
            /\ bookings'[Len(bookings')].chat_id = c
            /\ bookings'[Len(bookings')].status = "confirmed"
            /\ turn'.chat = c
            /\ turn'.payload.status = "confirmed"]_vars

\* both turns stood at their conflict query together, and the slot now has two confirmed Bookings
\* of the two conversations, the second of them just reported confirmed
C23_BothConfirmedOneSlot ==
  /\ Len(bookings) = 2
  /\ bookings[1].chat_id # bookings[2].chat_id
  /\ SameSlot(bookings[1], bookings[2])
  /\ bookings[1].status = "confirmed" /\ bookings[2].status = "confirmed"
  /\ turn.op = "continue_chat" /\ turn.payload.status = "confirmed"
  /\ turn.chat = bookings[2].chat_id

(***************************************************************************)
(* C24.  The durable session record is written through: once the          *)
(* background work of the turns has run, the stage of the durable record   *)
(* of a conversation is the stage last written to its cache entry.         *)
(***************************************************************************)
C24_DurableStageFollowsCache ==
  \A c \in Chats :
    (bg = <<>> /\ "stage" \in DOMAIN cache[c])
      => /\ "stage" \in DOMAIN sessions[c]
         /\ sessions[c].stage = cache[c].stage

(***************************************************************************)
(* C25.  A conversation whose cache entry is lost resumes at its recorded  *)
(* stage: when Redis drops the session key, the stage the next turn loads  *)
(* (from the cache, else from the durable record) is the stage the         *)
(* conversation had before the loss.                                       *)
(***************************************************************************)
C25_ResumesAtRecordedStage ==
  [][expired' # expired => \A c \in Chats : PersistedStage(c)' = PersistedStage(c)]_vars

(***************************************************************************)
(* C26.  Every session cache entry carries an expiration: an entry that    *)
(* exists has the time to live of SESSION_TTL seconds.                     *)
(***************************************************************************)
C26_EveryEntryExpires == \A c \in Chats : cache[c] # <<>> => ttl[c] = SESSION_TTL

(***************************************************************************)
(* C27.  No field with an empty value is stored in a session cache entry:  *)
(* the customer fields of an entry, when it has them, are not empty.       *)
(***************************************************************************)
C27_NoEmptyField ==
  \A c \in Chats :
    /\ "name" \in DOMAIN cache[c] => cache[c].name # ""
    /\ "contact" \in DOMAIN cache[c] => cache[c].contact # <<>>
    /\ "email" \in DOMAIN cache[c] => cache[c].email # <<>>

(***************************************************************************)
(* C28.  Session merges are last-write-wins per field.  After two          *)
(* concurrent merges into one entry, a field written by one of them alone  *)
(* has the value that one wrote, a field written by both has the value of  *)
(* the merge served last, and every other field of the entry is as it was: *)
(* merges that write disjoint fields both survive.                         *)
(***************************************************************************)
\* the fields a writer of the probe writes, with their values
Written(writer) ==
  IF writer = "tool" THEN probe.tool
  ELSE [key \in {x \in DOMAIN probe.router : probe.router[x].some} |-> Val(probe.router[key])]

C28_LastWriteWinsPerField ==
  (probe.asked /\ probe.answered) =>
    LET last == Written(probe.served[2])
        first == Written(probe.served[1])
    IN  /\ DOMAIN cache["c1"] = DOMAIN probe.entry \cup DOMAIN first \cup DOMAIN last
        /\ \A key \in DOMAIN last : cache["c1"][key] = last[key]
        /\ \A key \in DOMAIN first \ DOMAIN last : cache["c1"][key] = first[key]
        /\ \A key \in DOMAIN probe.entry \ (DOMAIN first \cup DOMAIN last) : cache["c1"][key] = probe.entry[key]

\* the router's stage update was served after the tool's customer fields, and the entry has both
C28_DisjointMergesSurvive ==
  /\ probe.asked /\ probe.answered
  /\ probe.served = <<"tool", "router">>
  /\ DOMAIN probe.tool \cap DOMAIN probe.router = {}
  /\ "customer_name" \in DOMAIN cache["c1"] /\ cache["c1"].customer_name = "John"
  /\ cache["c1"].stage = "awaiting_availability"
  /\ probe.entry # <<>> /\ probe.entry.stage = "awaiting_user_info"

(***************************************************************************)
(* C29.  A Booking is immutable once created.  A step that is not a        *)
(* DELETE booking-info request (a new-chat or continue-chat turn with the  *)
(* tool it runs, the background work, an expiry) leaves every Booking of   *)
(* the collection in place and unchanged: it can only append.              *)
(***************************************************************************)
C29_BookingsOnlyLeaveByDelete ==
  [][turn'.op # "delete_booking_info"
       => /\ Len(bookings') >= Len(bookings)
          /\ SubSeq(bookings', 1, Len(bookings)) = bookings]_vars

\* a continue-chat turn inserted a Booking into a collection that held one of the other conversation
C29_TurnAfterBooking ==
  /\ turn.op = "continue_chat"
  /\ turn.booked.some
  /\ Len(bookings) = 2
  /\ bookings[1].chat_id # turn.chat

(***************************************************************************)
(* C30.  An awaiting_availability turn that does not end confirmed (date   *)
(* or time missing, the professional not working that weekday, the slot    *)
(* booked, no professional selected) inserts no Booking, leaves the        *)
(* persisted stage at awaiting_availability and keeps the selected         *)
(* professional and the customer fields of the session, in the cache and   *)
(* in the durable record.                                                  *)
(***************************************************************************)
SessionFields == {"selected_professional", "service_type", "customer_name", "age", "contact", "email"}

Kept(before, after) ==
  \A key \in SessionFields \cap DOMAIN before : key \in DOMAIN after /\ after[key] = before[key]

C30_UnconfirmedKeepsSession ==
  [][\A c \in Chats :
       (/\ turn'.op = "continue_chat"
        /\ turn'.chat = c
        /\ turn'.stage = "awaiting_availability"
        /\ turn'.fault = "none"
        /\ turn'.payload.status # "confirmed")
         => /\ bookings' = bookings
            /\ PersistedStage(c)' = "awaiting_availability"
            /\ Kept(cache[c], cache'[c])
            /\ Kept(sessions[c], sessions'[c])]_vars

\* check_availability found the slot booked, and the session still names the professional
C30_SlotBookedStays ==
  /\ turn.op = "continue_chat"
  /\ turn.stage = "awaiting_availability"
  /\ turn.fault = "none"
  /\ turn.tool = "check_availability"
  /\ turn.payload.status = "in_progress"
  /\ turn.payload.response = Some(BookedText("Dr. Raj Sharma"))
  /\ cache[turn.chat].selected_professional = "Dr. Raj Sharma"

(***************************************************************************)
(* C31.  Every Booking of the collection has a booking_date whose weekday  *)
(* is one of the working_days of the professional the Booking names.       *)
(***************************************************************************)
WorkingDaysOf(name) ==
  UNION {Range(professionals[p].working_days) : p \in {q \in 1..Len(professionals) : professionals[q].name = name}}

C31_BookedOnWorkingDay ==
  \A i \in 1..Len(bookings) :
    Weekday(<<bookings[i].booking_date.a, bookings[i].booking_date.b, bookings[i].booking_date.c>>)
      \in WorkingDaysOf(bookings[i].professional_name)

(***************************************************************************)
(* C33.  In the confirmation-gate flow the customer details reach the      *)
(* session only with the affirmative reply to confirm_user_info: every     *)
(* other tool call (collect_user_info, a negative or an unclear reply      *)
(* among them) leaves the name, age, contact and email of the session as   *)
(* they were.                                                              *)
(***************************************************************************)
DetailsOf(entry) == [key \in {"name", "age", "contact", "email"} \cap DOMAIN entry |-> entry[key]]

C33_DetailsOnlyAfterAffirmation ==
  [][~(turn'.op = "confirm_user_info" /\ turn'.payload.status = "confirmed")
       => DetailsOf(cache["c1"]') = DetailsOf(cache["c1"])]_vars

(***************************************************************************)
(* C32.  The professional a conversation has selected is one of those      *)
(* list_professionals last stored for that conversation; where nothing     *)
(* was listed, nobody is selected.                                         *)
(***************************************************************************)
ListedFor(c) ==
  IF "professionals" \in DOMAIN sessions[c]
  THEN {sessions[c].professionals[i].name : i \in 1..Len(sessions[c].professionals)}
  ELSE {}

C32_SelectedWasListed ==
  \A c \in Chats :
    "selected_professional" \in DOMAIN cache[c] => cache[c].selected_professional \in ListedFor(c)

(***************************************************************************)
(* C34.  In the confirmation-gate flow the bookings collection changes     *)
(* only when confirm_booking receives an affirmative reply for a session   *)
(* that holds the booking_id check_availability wrote, and then by the one *)
(* Booking with that id; check_availability inserts nothing, and a         *)
(* confirm_booking call that inserts nothing (negative or unclear reply,   *)
(* no session, no booking_id) leaves the session as it was.                *)
(***************************************************************************)
Affirmative(msg) ==
  \E j \in 1..Len(msg) : msg[j].k = "word" /\ Lower(msg[j].w) \in {"yes", "y", "confirm", "yeah", "correct", "ok"}

C34_InsertOnlyOnAffirmedProvisional ==
  [][\A c \in Chats : turn'.chat = c =>
       /\ bookings' # bookings =>
            /\ turn'.op = "confirm_booking"
            /\ Affirmative(turn'.msg)
            /\ "booking_id" \in DOMAIN cache[c]
            /\ Len(bookings') = Len(bookings) + 1
            /\ SubSeq(bookings', 1, Len(bookings)) = bookings
            /\ bookings'[Len(bookings')].booking_id = cache[c].booking_id
            /\ bookings'[Len(bookings')].chat_id = c
       /\ turn'.op = "check_availability" => bookings' = bookings
       /\ turn'.op = "confirm_booking" /\ bookings' = bookings => cache' = cache /\ ttl' = ttl]_vars

C34_AffirmedBookingInserted ==
  /\ turn.op = "confirm_booking"
  /\ Affirmative(turn.msg)
  /\ \E i \in 1..Len(bookings) :
       /\ bookings[i].chat_id = turn.chat
       /\ "booking_id" \in DOMAIN cache[turn.chat]
       /\ bookings[i].booking_id = cache[turn.chat].booking_id

(***************************************************************************)
(* C35.  The map an extractor returns holds a key only for a value it      *)
(* extracted: the user-info map has no empty name, and the booking map has *)
(* no booking_date or booking_time key whose value is None.                *)
(***************************************************************************)
C35_OnlyExtractedKeys ==
  probe.asked /\ probe.answered =>
    /\ probe.stage = "awaiting_user_info" =>
         ("name" \in DOMAIN probe.processed_input.info => probe.processed_input.info.name # "")
    /\ probe.stage = "awaiting_availability" =>
         \A key \in DOMAIN probe.processed_input.booking : probe.processed_input.booking[key].some

(***************************************************************************)
(* C36.  The bookings collection holds at most one Booking for a           *)
(* conversation id.                                                        *)
(***************************************************************************)
C36_OneBookingPerChat ==
  \A i, j \in 1..Len(bookings) : bookings[i].chat_id = bookings[j].chat_id => i = j

(***************************************************************************)
(* C37.  No two Bookings of the collection share a booking_id.             *)
(***************************************************************************)
C37_BookingIdsUnique ==
  \A i, j \in 1..Len(bookings) : bookings[i].booking_id = bookings[j].booking_id => i = j

(***************************************************************************)
(* C38.  Every Booking carries the customer's name, age, a contact number  *)
(* of ten digits and an email address that passed the tool's check.        *)
(***************************************************************************)
C38_CompleteCustomerSnapshot ==
  \A i \in 1..Len(bookings) :
    /\ bookings[i].customer_name.some
    /\ bookings[i].age.some
    /\ bookings[i].contact.some /\ ContactOk(Val(bookings[i].contact))
    /\ bookings[i].email.some /\ ToolEmailOk(Val(bookings[i].email))

(***************************************************************************)
(* C39.  The stage of a conversation never goes backwards in the order     *)
(* recommendation, awaiting_city, awaiting_prof_selection,                 *)
(* awaiting_user_info, awaiting_availability, complete: whatever happens   *)
(* (a turn, its background work, the expiry of the session key, a DELETE), *)
(* the stage the next turn of the conversation loads is not earlier than   *)
(* the one it would have loaded before.                                    *)
(***************************************************************************)
StageRank(stage) ==
  CASE stage = "recommendation" -> 0
    [] stage = "awaiting_city" -> 1
    [] stage = "awaiting_prof_selection" -> 2
    [] stage = "awaiting_user_info" -> 3
    [] stage = "awaiting_availability" -> 4
    [] OTHER -> 5

C39_StageNeverGoesBack ==
  [][\A c \in Chats : StageRank(PersistedStage(c)') >= StageRank(PersistedStage(c))]_vars

====
